---- MODULE Spec2Model ----
(***************************************************************************)
(* Per-channel enforcement state machine of the validating signer          *)
(* (lightning-signer-core/src/policy/validator.rs, EnforcementState).      *)
(*                                                                         *)
(* Every public operation of EnforcementState is an operator that takes    *)
(* the state it is called on and its arguments and returns the state it    *)
(* leaves behind together with its result (Ok, a policy error or a panic); *)
(* one action per operation applies it to the channel's state with         *)
(* arguments drawn from small sets and records the call in `last`.         *)
(*                                                                         *)
(* u64 values: the commitment numbers are u64.  A value below 2^63 is      *)
(* written as itself; a value v >= 2^63 is written as v - 2^64 (its        *)
(* two's-complement reading), so u64::MAX is -1 and u64::MAX - 1 is -2.    *)
(* Wrapping addition is then plain integer addition, and the unsigned      *)
(* order and the overflow test are ULt and add_overflows below.            *)
(***************************************************************************)
EXTENDS Integers, Sequences, FiniteSets, TLC

\* ---------------------------------------------------------------- bounds

\* Largest next_counterparty_commit_num the model lets the channel reach.
MaxCommitNum == 3

\* Largest next_holder_commit_num the model lets the channel reach.
MaxHolderNum == 1

\* Largest to_broadcaster_value_sat / to_countersigner_value_sat of a
\* commitment, and largest epsilon_sat, in the specifications of the queries.
MaxSat == 2

\* Largest number of HTLCs (offered and received together) of a new
\* commitment passed to the payment summaries.
MaxHtlcs == 2

\* Largest number of channel operations the threads of a node complete.
MaxChannelOps == 3

\* ------------------------------------------------------------ value sets

\* Option::None. A record, so that it can be compared with the records
\* that stand for points and commitments.
None == [none |-> TRUE]

\* Per-commitment points (PublicKey values).
Points == {[point |-> "P0"], [point |-> "P1"]}

\* CommitmentInfo2 values with the given balances and HTLC lists (the fields
\* the queries read).
CommitmentInfo2(values, offered, received) ==
    [to_broadcaster_value_sat : values,
     to_countersigner_value_sat : values,
     offered_htlcs : offered,
     received_htlcs : received]

\* Commitments without HTLCs, of every pair of balances.
ValueCommitments == CommitmentInfo2(0 .. MaxSat, {<< >>}, {<< >>})

\* Payment hashes.
Hashes == {"H1", "H2"}

\* HTLCInfo2 values (the fields the summaries read).
Htlcs == {[payment_hash |-> "H1", value_sat |-> 1],
          [payment_hash |-> "H2", value_sat |-> 2]}

\* Vec<HTLCInfo2> values of at most n HTLCs.
HtlcLists(n) == UNION {[1 .. k -> Htlcs] : k \in 0 .. n}

\* Commitments of at most n HTLCs, offered and received together.
PaymentCommitments(n) ==
    {c \in CommitmentInfo2({0}, HtlcLists(n), HtlcLists(n)) :
        Len(c.offered_htlcs) + Len(c.received_htlcs) <= n}

\* Commitment descriptions (CommitmentInfo2 values) of the state machine:
\* two commitments that differ in one balance.
Infos == CommitmentInfo2({0}, {<< >>}, {<< >>})
             \cup {c \in ValueCommitments : c.to_broadcaster_value_sat = 1
                                            /\ c.to_countersigner_value_sat = 0}

\* initial_holder_value arguments of EnforcementState::new.
InitialHolderValues == {0}

\* The threads that serve requests on a node.
Threads == {"t1", "t2"}

\* The contest delay of the channel a sweep spends from
\* (setup.counterparty_selected_contest_delay).
ContestDelay == 7

\* The fee range of a sweep.
SweepFeeMin == 100

SweepFeeMax == 46000

\* The script the wallet derives at an index, and a script it does not derive.
wallet_script(index) == [owner |-> "wallet", index |-> index]

nonwallet_script(index) == [owner |-> "other", index |-> index]

\* The destinations of the sweeps: the wallet's scripts at 19 and 21, and an
\* address outside the wallet.
Scripts == {wallet_script(19), wallet_script(21), nonwallet_script(3)}

\* The key paths supplied with a destination.
KeyPaths == {<<19>>, <<21>>, <<3>>}

\* The input's value and the output values of the sweeps: fees of 1000, 0,
\* 99, 100, 46000, 46001 and 1978997 on an input of 1979997.
SweepAmounts == {1979997, 1879997}

SweepOutputValues == {1978997, 1979997, 1979898, 1979897, 1933997, 1933996, 1000}

\* make_test_delayed_sweep_tx: one input with the contest delay as sequence,
\* one output, version 2, lock_time 0.
make_test_delayed_sweep_tx(contest_delay, script_pubkey, amount_sat) ==
    [version |-> 2,
     lock_time |-> 0,
     input |-> <<[sequence |-> contest_delay]>>,
     output |-> <<[script_pubkey |-> script_pubkey, value |-> amount_sat]>>]

\* The transactions the signer is asked to sign: the test transaction and
\* what the tests' mutators make of it (a second input or output, another
\* version, lock_time or sequence).
SweepTransactions ==
    {[version |-> v, lock_time |-> l, input |-> i, output |-> o] :
        v \in {2, 3}, l \in {0, 1000000},
        i \in {<<[sequence |-> s]>> : s \in {ContestDelay, 42}}
                 \cup {<<[sequence |-> ContestDelay], [sequence |-> ContestDelay]>>},
        o \in UNION {{tx.output, tx.output \o tx.output} :
                        tx \in {make_test_delayed_sweep_tx(ContestDelay, s, a) :
                                   s \in Scripts, a \in SweepOutputValues}}}

\* The arguments of sign_delayed_sweep.
SweepRequests ==
    [tx : SweepTransactions, input : {0, 1}, amount_sat : SweepAmounts,
     key_path : KeyPaths]

\* u64::MAX in the encoding described above.
U64Max == -1

\* The numbers the operations are called with: everything up to one past
\* the largest reachable commitment number, and the top of the u64 range.
NumArgs == (0 .. (MaxCommitNum + 1)) \cup {U64Max - 1, U64Max}

\* ------------------------------------------------------- u64 arithmetic

\* a < b on u64
ULt(a, b) == IF (a < 0) = (b < 0) THEN a < b ELSE b < 0

\* a > b on u64
UGt(a, b) == ULt(b, a)

\* a + b leaves the u64 range (b is a small literal of the code)
add_overflows(a, b) == a < 0 /\ a + b >= 0

\* ---------------------------------------------------------------- results

\* Ok(v)
Ok(v) == [kind |-> "Ok", val |-> v]

\* Ok(()). The unit value is a record, like the points and commitments
\* other calls return.
OkUnit == Ok([unit |-> TRUE])

\* Some(v)
Some(v) == [kind |-> "Some", val |-> v]

\* A returned None
NoneOpt == [kind |-> "None", val |-> None]

\* transaction_format_err!(..): a ValidationError of kind TransactionFormat
transaction_format_err(msg) == [kind |-> "TransactionFormat", val |-> msg]

\* policy_err!(..): a ValidationError of kind Policy; the message is the
\* format string followed by its arguments.
policy_err(msg) == [kind |-> "Policy", val |-> msg]

\* panic!(..), a failed assert!(..), or an arithmetic overflow in a build
\* with overflow checks.
Panic(msg) == [kind |-> "Panic", val |-> msg]

\* self.invalid_argument(msg): a Status of code InvalidArgument
invalid_argument(msg) == [kind |-> "InvalidArgument", val |-> msg]

\* ------------------------------------------------------------------ state

VARIABLES
    estate,           \* the channel's EnforcementState
    last,             \* the last call: operation, arguments, state before, result
    supplied,         \* supplied[k]: point and info of the accepted advance to commit
                      \* number k, kept for the last two advances
    overflow_checks,  \* whether the build panics on integer overflow (else it wraps)
    request,          \* the arguments of the query the channel is asked (None: no query)
    mutex,            \* Node::channels: the threads holding a guard, and the poison flag
    threads,          \* per thread: its position, the commitment number it read
                      \* under the guard, and the operations it completed
    allowlist,        \* the node's allowlist: the scripts of the addresses added
    channel,          \* Channel: the counterparty's basepoints held by its keys,
                      \* and remote_config
    serial            \* the signer's main loop: its position, the message read,
                      \* the result of handling it and the replies written

vars == <<estate, last, supplied, overflow_checks, request, mutex, threads,
          allowlist, channel, serial>>

\* EnforcementState::new
new(initial_holder_value) ==
    [ next_holder_commit_num |-> 0,
      next_counterparty_commit_num |-> 0,
      next_counterparty_revoke_num |-> 0,
      current_counterparty_point |-> None,
      previous_counterparty_point |-> None,
      current_holder_commit_info |-> None,
      current_counterparty_commit_info |-> None,
      previous_counterparty_commit_info |-> None,
      mutual_close_signed |-> FALSE,
      initial_holder_value |-> initial_holder_value ]

\* What a call returns: the state it leaves and its result.
Outcome(state, res) == [state |-> state, res |-> res]

\* ---------------------------------------------------- minimum_to_*_value

\* The body shared by the two queries once hval and cval are read: the
\* smaller value if the two are within epsilon_sat, else None.
within_epsilon(hval, cval, epsilon_sat) ==
    IF hval > cval
    THEN IF hval - cval <= epsilon_sat THEN Some(cval) ELSE NoneOpt
    ELSE IF cval - hval <= epsilon_sat THEN Some(hval) ELSE NoneOpt

minimum_to_holder_value(self, epsilon_sat) ==
    IF self.current_holder_commit_info # None
    THEN IF self.current_counterparty_commit_info # None
         THEN LET hval == self.current_holder_commit_info.to_broadcaster_value_sat
                  cval == self.current_counterparty_commit_info.to_countersigner_value_sat
              IN  within_epsilon(hval, cval, epsilon_sat)
         ELSE NoneOpt
    ELSE NoneOpt

\* Variant: the fields are those of minimum_to_holder_value.
minimum_to_counterparty_value_holder_fields(self, epsilon_sat) ==
    IF self.current_holder_commit_info # None
    THEN IF self.current_counterparty_commit_info # None
         THEN LET hval == self.current_holder_commit_info.to_broadcaster_value_sat
                  cval == self.current_counterparty_commit_info.to_countersigner_value_sat
              IN  within_epsilon(hval, cval, epsilon_sat)
         ELSE NoneOpt
    ELSE NoneOpt

minimum_to_counterparty_value(self, epsilon_sat) ==
    IF self.current_holder_commit_info # None
    THEN IF self.current_counterparty_commit_info # None
         THEN LET hval == self.current_holder_commit_info.to_countersigner_value_sat
                  cval == self.current_counterparty_commit_info.to_broadcaster_value_sat
              IN  within_epsilon(hval, cval, epsilon_sat)
         ELSE NoneOpt
    ELSE NoneOpt

\* ------------------------------------------------------- payment summaries

\* Map::new()
EmptyMap == [k \in {} |-> 0]

\* Option::or
or(a, b) == IF a # None THEN a ELSE b

\* The summary after the first n HTLCs of the loop of summarize_payments.
RECURSIVE summarize_first(_, _)
summarize_first(htlcs, n) ==
    IF n = 0
    THEN EmptyMap
    ELSE LET summary == summarize_first(htlcs, n - 1)
             h == htlcs[n]
         IN  IF h.payment_hash \in DOMAIN summary
             THEN [summary EXCEPT ![h.payment_hash] = @ + h.value_sat]
             ELSE [k \in DOMAIN summary \cup {h.payment_hash} |->
                      IF k = h.payment_hash THEN h.value_sat ELSE summary[k]]

\* Variant: a later HTLC of a payment replaces the earlier ones.
summarize_payments_last_wins(htlcs) ==
    [k \in {htlcs[i].payment_hash : i \in 1 .. Len(htlcs)} |->
        htlcs[CHOOSE i \in 1 .. Len(htlcs) :
                 /\ htlcs[i].payment_hash = k
                 /\ \A j \in 1 .. Len(htlcs) : htlcs[j].payment_hash = k => j <= i].value_sat]

summarize_payments(htlcs) == summarize_first(htlcs, Len(htlcs))

\* The summary of the HTLC list of an optional commitment, or the empty map.
summary_or_new(tx, offered) ==
    IF tx = None THEN EmptyMap
    ELSE summarize_payments(IF offered THEN tx.offered_htlcs ELSE tx.received_htlcs)

payments_summary(self, new_holder_tx, new_counterparty_tx) ==
    LET holder_summary ==
            summary_or_new(or(new_holder_tx, self.current_holder_commit_info), TRUE)
        counterparty_summary ==
            summary_or_new(or(new_counterparty_tx, self.current_counterparty_commit_info), FALSE)
    IN  [k \in DOMAIN holder_summary \cup DOMAIN counterparty_summary |->
            IF k \in DOMAIN holder_summary
            THEN IF k \in DOMAIN counterparty_summary
                 THEN IF holder_summary[k] > counterparty_summary[k]
                      THEN holder_summary[k] ELSE counterparty_summary[k]
                 ELSE holder_summary[k]
            ELSE counterparty_summary[k]]

\* Variant: the summary is not restricted to the payments of the
\* counterparty's commitment.
incoming_payments_summary_no_retain(self, new_holder_tx, new_counterparty_tx) ==
    LET holder_summary ==
            summary_or_new(or(new_holder_tx, self.current_holder_commit_info), FALSE)
        counterparty_summary ==
            summary_or_new(or(new_counterparty_tx, self.current_counterparty_commit_info), TRUE)
    IN  [k \in DOMAIN holder_summary |->
            IF k \in DOMAIN counterparty_summary
            THEN IF holder_summary[k] < counterparty_summary[k]
                 THEN holder_summary[k] ELSE counterparty_summary[k]
            ELSE holder_summary[k]]

incoming_payments_summary(self, new_holder_tx, new_counterparty_tx) ==
    LET holder_summary ==
            summary_or_new(or(new_holder_tx, self.current_holder_commit_info), FALSE)
        counterparty_summary ==
            summary_or_new(or(new_counterparty_tx, self.current_counterparty_commit_info), TRUE)
    IN  [k \in DOMAIN holder_summary \cap DOMAIN counterparty_summary |->
            IF holder_summary[k] < counterparty_summary[k]
            THEN holder_summary[k] ELSE counterparty_summary[k]]

\* ------------------------------------------------------ claimable balances

\* The sum of the values of the HTLCs whose preimage is known.
RECURSIVE known_htlc_value(_, _)
known_htlc_value(htlcs, preimage_map) ==
    IF htlcs = << >> THEN 0
    ELSE (IF Head(htlcs).payment_hash \in preimage_map THEN Head(htlcs).value_sat ELSE 0)
             + known_htlc_value(Tail(htlcs), preimage_map)

\* CommitmentInfo2::claimable_balance: the holder's balance in a commitment.
claimable_balance(tx, preimage_map, is_outbound, channel_value_sat) ==
    IF is_outbound
    THEN tx.to_broadcaster_value_sat + known_htlc_value(tx.received_htlcs, preimage_map)
    ELSE tx.to_countersigner_value_sat + known_htlc_value(tx.offered_htlcs, preimage_map)

\* BalanceDelta(cur_bal, new_bal)
BalanceDelta(cur_bal, new_bal) == [kind |-> "BalanceDelta", val |-> <<cur_bal, new_bal>>]

\* Variant: the first value wins whenever there is one.
min_opt_first(a_opt, b_opt) ==
    IF a_opt.kind = "Some" THEN a_opt ELSE b_opt

min_opt(a_opt, b_opt) ==
    IF a_opt.kind = "Some"
    THEN IF b_opt.kind = "Some"
         THEN Some(IF a_opt.val < b_opt.val THEN a_opt.val ELSE b_opt.val)
         ELSE a_opt
    ELSE b_opt

\* as_ref().map(|tx| tx.claimable_balance(..))
balance_of(tx, preimage_map, channel_setup) ==
    IF tx = None THEN NoneOpt
    ELSE Some(claimable_balance(tx, preimage_map, channel_setup.is_outbound,
                                channel_setup.channel_value_sat))

claimable_balances(self, preimage_map, new_holder_tx, new_counterparty_tx, channel_setup) ==
    IF ~(new_holder_tx # None \/ new_counterparty_tx # None)
    THEN Panic("must have at least one new tx")
    ELSE IF ~(new_holder_tx = None \/ new_counterparty_tx = None)
    THEN Panic("must have at most one new tx")
    ELSE LET cur_holder_bal ==
                 balance_of(self.current_holder_commit_info, preimage_map, channel_setup)
             cur_cp_bal ==
                 balance_of(self.current_counterparty_commit_info, preimage_map,
                            channel_setup)
             cur_bal_opt == min_opt(cur_holder_bal, cur_cp_bal)
             new_holder_bal ==
                 balance_of(or(new_holder_tx, self.current_holder_commit_info),
                            preimage_map, channel_setup)
             new_cp_bal ==
                 balance_of(or(new_counterparty_tx, self.current_counterparty_commit_info),
                            preimage_map, channel_setup)
             new_bal_opt == min_opt(new_holder_bal, new_cp_bal)
         IN  IF new_bal_opt.kind = "None"
             THEN Panic("already checked that we have a new tx")
             ELSE BalanceDelta(IF cur_bal_opt.kind = "None"
                               THEN self.initial_holder_value
                               ELSE cur_bal_opt.val,
                               new_bal_opt.val)

\* ------------------------------------------------------------ Node::channels

\* Mutex::new(..): no guard out, not poisoned.
new_mutex == [guards |-> {}, poisoned |-> FALSE]

\* Variant: lock() never waits.
lock_available_always(m) == TRUE

\* Variant: lock() looks at the poison flag only.
lock_available_unless_poisoned(m) == ~m.poisoned

\* Whether lock() returns: no other guard is out.
lock_available(m) == m.guards = {}

\* A thread outside Node::channels(): no guard, nothing read.
idle_thread == [pc |-> "idle", seen |-> 0, completed |-> 0]

\* ------------------------------------------------------ validate_delayed_sweep

\* Allowlist::contains (section 4.3).
allowlist_contains(allow, script) == script \in allow

\* Variant: add returns without recording the addresses.
allowlist_add_dropped(allow, scripts) == allow

\* Allowlist::add (section 4.3).
allowlist_add(allow, scripts) == allow \cup scripts

\* Variant: any script of the wallet is accepted, whatever the path.
is_holder_destination_any_path(script, derivation_path) == script.owner = "wallet"

\* Wallet view (section 4.2): the script derived at the path is the script.
is_holder_destination(script, derivation_path) ==
    /\ derivation_path # << >>
    /\ wallet_script(derivation_path[1]) = script

\* Variant: the lock_time is not looked at.
sweep_format_any_locktime(tx, input, contest_delay) ==
    IF Len(tx.input) # 1
    THEN transaction_format_err(
             <<"validate_delayed_sweep: bad number of delayed sweep inputs: {} != 1",
               Len(tx.input)>>)
    ELSE IF Len(tx.output) # 1
    THEN transaction_format_err(
             <<"validate_delayed_sweep: bad number of delayed sweep outputs: {} != 1",
               Len(tx.output)>>)
    ELSE IF input # 0
    THEN transaction_format_err(<<"validate_delayed_sweep: bad input index: {} != 0", input>>)
    ELSE IF tx.version # 2
    THEN transaction_format_err(
             <<"validate_delayed_sweep: bad delayed sweep version: {}", tx.version>>)
    ELSE IF tx.input[1].sequence # contest_delay
    THEN transaction_format_err(
             <<"validate_delayed_sweep: bad delayed sweep sequence: {} != {}",
               tx.input[1].sequence, contest_delay>>)
    ELSE OkUnit

\* The format of a delayed sweep (section 4.1), with the messages the tests
\* expect.
sweep_format(tx, input, contest_delay) ==
    IF Len(tx.input) # 1
    THEN transaction_format_err(
             <<"validate_delayed_sweep: bad number of delayed sweep inputs: {} != 1",
               Len(tx.input)>>)
    ELSE IF Len(tx.output) # 1
    THEN transaction_format_err(
             <<"validate_delayed_sweep: bad number of delayed sweep outputs: {} != 1",
               Len(tx.output)>>)
    ELSE IF input # 0
    THEN transaction_format_err(<<"validate_delayed_sweep: bad input index: {} != 0", input>>)
    ELSE IF tx.version # 2
    THEN transaction_format_err(
             <<"validate_delayed_sweep: bad delayed sweep version: {}", tx.version>>)
    ELSE IF tx.lock_time > 0
    THEN transaction_format_err(
             <<"validate_delayed_sweep: bad delayed sweep locktime: {} > {}", tx.lock_time, 0>>)
    ELSE IF tx.input[1].sequence # contest_delay
    THEN transaction_format_err(
             <<"validate_delayed_sweep: bad delayed sweep sequence: {} != {}",
               tx.input[1].sequence, contest_delay>>)
    ELSE OkUnit

\* Variant: the minimum itself is rejected.
validate_fee_min_excluded(fee) ==
    IF fee <= SweepFeeMin
    THEN policy_err(<<"validate_fee: validate_delayed_sweep: fee below minimum: {} < {}",
                      fee, SweepFeeMin>>)
    ELSE IF fee > SweepFeeMax
    THEN policy_err(<<"validate_fee: validate_delayed_sweep: fee above maximum: {} > {}",
                      fee, SweepFeeMax>>)
    ELSE OkUnit

\* validate_fee: the fee is in [sweep_fee_min, sweep_fee_max].
validate_fee(fee) ==
    IF fee < SweepFeeMin
    THEN policy_err(<<"validate_fee: validate_delayed_sweep: fee below minimum: {} < {}",
                      fee, SweepFeeMin>>)
    ELSE IF fee > SweepFeeMax
    THEN policy_err(<<"validate_fee: validate_delayed_sweep: fee above maximum: {} > {}",
                      fee, SweepFeeMax>>)
    ELSE OkUnit

\* The fee of a sweep: amount_sat - output value, which must not underflow.
sweep_fee(tx, amount_sat) ==
    IF amount_sat < tx.output[1].value
    THEN policy_err(<<"delayed sweep fee underflow: {} - {}", amount_sat, tx.output[1].value>>)
    ELSE validate_fee(amount_sat - tx.output[1].value)

\* validate_delayed_sweep (section 4.4): the format, then the destination,
\* then the fee; the first failing rule is returned.
validate_delayed_sweep(allow, contest_delay, tx, input, amount_sat, key_path) ==
    IF sweep_format(tx, input, contest_delay).kind # "Ok"
    THEN sweep_format(tx, input, contest_delay)
    ELSE IF ~(\/ is_holder_destination(tx.output[1].script_pubkey, key_path)
              \/ allowlist_contains(allow, tx.output[1].script_pubkey))
    THEN policy_err(<<"validate_delayed_sweep: destination is not in wallet or allowlist">>)
    ELSE sweep_fee(tx, amount_sat)

\* Channel::sign_delayed_sweep: the signature, if the validator accepts.
sign_delayed_sweep(allow, contest_delay, tx, input, amount_sat, key_path) ==
    LET valid == validate_delayed_sweep(allow, contest_delay, tx, input, amount_sat, key_path)
    IN  IF valid.kind = "Ok" THEN Ok([signature_of |-> tx, input |-> input]) ELSE valid

\* ------------------------------------------------------ the channel's setup

\* The counterparty's ChannelPublicKeys, by their payment basepoint.
ChannelPublicKeys == {[payment_basepoint |-> "B0"], [payment_basepoint |-> "B1"]}

\* RemoteChannelConfig
RemoteChannelConfig(to_self_delay, shutdown_script, funding_outpoint) ==
    [ to_self_delay |-> to_self_delay,
      shutdown_script |-> shutdown_script,
      funding_outpoint |-> funding_outpoint ]

RemoteChannelConfigs ==
    { RemoteChannelConfig(d, s, o) :
        d \in {ContestDelay, ContestDelay + 1},
        s \in {wallet_script(19), nonwallet_script(3)},
        o \in {[txid |-> "T0", vout |-> 0], [txid |-> "T1", vout |-> 0]} }

\* A channel before the counterparty's points and configuration are known.
new_channel == [remote_pubkeys |-> None, remote_config |-> None]

\* keys.set_remote_channel_pubkeys(channel_points). The keys are those of
\* the lightning library: with asserts_unset it refuses (panics) to replace
\* points already set, without it the points are replaced.
set_remote_channel_pubkeys(self, channel_points, asserts_unset) ==
    IF asserts_unset /\ self.remote_pubkeys # None
    THEN Outcome(self, Panic(<<"remote_channel_pubkeys is set">>))
    ELSE Outcome([self EXCEPT !.remote_pubkeys = channel_points], OkUnit)

\* Channel::accept_remote_points
accept_remote_points(self, channel_points, asserts_unset) ==
    set_remote_channel_pubkeys(self, channel_points, asserts_unset)

\* Channel::accept_remote_config
accept_remote_config(self, config) ==
    Outcome([self EXCEPT !.remote_config = config], OkUnit)

\* Channel::ready: the points, then the configuration; a panic in the first
\* leaves the configuration as it was.
ready(self, channel_points, config, asserts_unset) ==
    LET points == accept_remote_points(self, channel_points, asserts_unset)
    IN  IF points.res.kind = "Panic"
        THEN points
        ELSE accept_remote_config(points.state, config)

\* Channel::is_ready
is_ready(self) == self.remote_config # None

\* `INITIAL_COMMITMENT_NUMBER - commitment_number` leaves the u64 range:
\* INITIAL_COMMITMENT_NUMBER is (1 << 48) - 1, above every number the model
\* writes as a natural and below the numbers at the top of the u64 range,
\* which are written as negatives.
sub_overflows(commitment_number) == commitment_number < 0

\* self.internal_error(msg): a Status of code Internal
internal_error(msg) == [kind |-> "Internal", val |-> msg]

\* What the key and signing libraries return to one request: whether
\* TxCreationKeys::new, the derivations of the three keys of the commitment
\* info and sign_remote_commitment return Ok.
LibraryOutcomes ==
    [txkeys : BOOLEAN, derive_delayed : BOOLEAN, derive_remote : BOOLEAN,
     derive_revocation : BOOLEAN, sign : BOOLEAN]

\* Channel::make_tx_keys: TxCreationKeys::new(..).expect("failed to derive
\* keys")
make_tx_keys(a_pubkeys, library) ==
    IF library.txkeys
    THEN Ok([remote_pubkeys |-> a_pubkeys])
    ELSE Panic(<<"failed to derive keys">>)

\* Channel::make_remote_tx_keys: the invalid-argument error without the
\* counterparty's basepoints, else the keys made of them.
make_remote_tx_keys(self, library) ==
    IF self.remote_pubkeys = None
    THEN invalid_argument("channel must be accepted")
    ELSE make_tx_keys(self.remote_pubkeys, library)

\* Channel::get_commitment_transaction_number_obscure_factor, with its
\* expect("channel must be accepted").
get_commitment_transaction_number_obscure_factor(self) ==
    IF self.remote_pubkeys = None
    THEN Panic(<<"channel must be accepted">>)
    ELSE Ok([obscure_factor_of |-> self.remote_pubkeys])

\* Channel::build_commitment_tx: the keys, the obscure factor xor
\* (INITIAL_COMMITMENT_NUMBER - commitment_number), a subtraction that panics
\* below 0 in a build with overflow checks and wraps otherwise, then the
\* remote config.
build_commitment_tx(self, commitment_number, library) ==
    IF make_remote_tx_keys(self, library).kind # "Ok"
    THEN make_remote_tx_keys(self, library)
    ELSE IF get_commitment_transaction_number_obscure_factor(self).kind = "Panic"
    THEN get_commitment_transaction_number_obscure_factor(self)
    ELSE IF overflow_checks /\ sub_overflows(commitment_number)
    THEN Panic(<<"attempt to subtract with overflow">>)
    ELSE IF self.remote_config = None
    THEN invalid_argument("channel not accepted yet")
    ELSE Ok([commitment_number |-> commitment_number,
             funding_outpoint |-> self.remote_config.funding_outpoint])

\* Channel::build_remote_commitment_info: the remote config, then the
\* counterparty's basepoints, then the three derived keys, each an internal
\* error when its derivation fails.
build_remote_commitment_info(self, library) ==
    IF self.remote_config = None
    THEN invalid_argument("channel not ready")
    ELSE IF self.remote_pubkeys = None
    THEN invalid_argument("channel not ready")
    ELSE IF ~library.derive_delayed
    THEN internal_error("could not derive to_local_delayed_key: {}")
    ELSE IF ~library.derive_remote
    THEN internal_error("could not derive remote_key: {}")
    ELSE IF ~library.derive_revocation
    THEN internal_error("could not derive revocation key: {}")
    ELSE Ok([to_local_delay |-> self.remote_config.to_self_delay])

\* Channel::sign_remote_commitment_tx_phase2: the info, the transaction, the
\* keys and the remote config, each with `?`, then the signature, an
\* internal error when the signing fails.
sign_remote_commitment_tx_phase2(self, commitment_number, library) ==
    IF build_remote_commitment_info(self, library).kind # "Ok"
    THEN build_remote_commitment_info(self, library)
    ELSE IF build_commitment_tx(self, commitment_number, library).kind # "Ok"
    THEN build_commitment_tx(self, commitment_number, library)
    ELSE IF make_remote_tx_keys(self, library).kind # "Ok"
    THEN make_remote_tx_keys(self, library)
    ELSE IF self.remote_config = None
    THEN invalid_argument("channel not accepted yet")
    ELSE IF ~library.sign
    THEN internal_error("failed to sign")
    ELSE Ok([signature_of |-> build_commitment_tx(self, commitment_number, library).val])

\* ------------------------------------------------------ the signer's main loop

\* The request headers on the serial port: a sequence number and a dbid.
Headers == [sequence : {0, 1, 2}, dbid : {0, 1, 2}]

\* The HsmdInit2 messages: the dev_allowlist, and whether its strings are
\* UTF-8.
InitMessages ==
    [type : {"HsmdInit2"}, dev_allowlist : {{}, {nonwallet_script(3)}}, utf8 : BOOLEAN]

\* The requests of the loop: the test's sweep, with another version and with
\* a fee of 0.
SignerMessages ==
    {r \in SweepRequests :
        /\ r.input = 0
        /\ r.amount_sat = 1979997
        /\ r.key_path = <<19>>
        /\ r.tx.lock_time = 0
        /\ r.tx.input = <<[sequence |-> ContestDelay]>>
        /\ Len(r.tx.output) = 1
        /\ r.tx.output[1].script_pubkey \in {wallet_script(19), nonwallet_script(3)}
        /\ r.tx.output[1].value \in {1978997, 1979997}}

\* An Err of the serial port or of the decoding of what was read from it.
SerialError == [kind |-> "Error", val |-> <<"serial">>]

\* What a read of a value of the set values can return.
Reads(values) == {Ok(value) : value \in values} \cup {SerialError}

\* What write_serial_response_header and msgs::write_vec can return.
Writes == {OkUnit, SerialError}

\* main before it reads the init header: nothing read, no handler, no
\* result, nothing written, not halted.
new_serial ==
    [pc |-> "init", first |-> None, init |-> None, init_header |-> None,
     init_reply |-> None, header |-> None, handler |-> None, result |-> NoneOpt,
     reply_header |-> None, reply |-> None, panic |-> None]

\* A panic of main: expect(msg) on an Err, or a failed assertion.
halt(self, msg) == [self EXCEPT !.pc = "panicked", !.panic = [msg |-> msg]]

\* Variant: only the dbid of the init header is asserted.
init_header_ok_dbid_only(header) == header.dbid = 0

\* assert_eq!(dbid, 0); assert_eq!(sequence, 0);
init_header_ok(header) == header.dbid = 0 /\ header.sequence = 0

\* read_serial_request_header(..).expect("read init header"), and the two
\* assertions on what it returned.
read_init_header(self, read) ==
    IF read.kind # "Ok"
    THEN halt(self, "read init header")
    ELSE IF init_header_ok(read.val)
    THEN [self EXCEPT !.pc = "init_message", !.first = read.val]
    ELSE [halt(self, "assertion failed") EXCEPT !.first = read.val]

\* msgs::read_message::<HsmdInit2>(..).expect("failed to read init message")
read_init_message(self, read) ==
    IF read.kind # "Ok"
    THEN halt(self, "failed to read init message")
    ELSE [self EXCEPT !.pc = "init_handle", !.init = read.val]

\* from_wire_string of each string of dev_allowlist, RootHandler::new and
\* root_handler.handle(..).expect("handle init"); handled is whether the
\* root handler returned Ok.
handle_init(self, handled) ==
    IF ~self.init.utf8
    THEN halt(self, "malformed string")
    ELSE IF ~handled
    THEN [halt(self, "handle init") EXCEPT !.handler = [root |-> TRUE]]
    ELSE [self EXCEPT !.pc = "init_write_header", !.handler = [root |-> TRUE]]

\* The allowlist of the node after these lines: RootHandler::new is given
\* the strings of dev_allowlist, once all of them are decoded.
init_allowlist(self, allow) ==
    IF self.init.utf8 THEN allowlist_add(allow, self.init.dev_allowlist) ELSE allow

\* write_serial_response_header(&mut serial, sequence).expect("write init
\* header")
write_init_header(self, written) ==
    IF written.kind # "Ok"
    THEN halt(self, "write init header")
    ELSE [self EXCEPT !.pc = "init_write_reply",
                      !.init_header = [sequence |-> self.first.sequence]]

\* msgs::write_vec(&mut serial, init_reply.as_vec()).expect("write init
\* reply"); the loop starts.
write_init_reply(self, written) ==
    IF written.kind # "Ok"
    THEN halt(self, "write init reply")
    ELSE [self EXCEPT !.pc = "read_header",
                      !.init_reply = [type |-> "HsmdInit2Reply"]]

\* read_serial_request_header(..).expect("read request header"): a new
\* turn of the loop, with nothing handled or written for this request yet.
read_request_header(self, read) ==
    IF read.kind # "Ok"
    THEN halt(self, "read request header")
    ELSE [self EXCEPT !.pc = "read_message", !.header = read.val,
                      !.handler = None, !.result = NoneOpt,
                      !.reply_header = None, !.reply = None]

\* msgs::read(..).expect("message read failed")
read_request(self, read) ==
    IF read.kind # "Ok"
    THEN halt(self, "message read failed")
    ELSE [self EXCEPT !.pc = "handle"]

\* handler.handle(message) for a request to sign a delayed sweep: the
\* signature, or the error of the first failing rule as it is.
handle(allow, message) ==
    sign_delayed_sweep(allow, ContestDelay, message.tx, message.input,
                       message.amount_sat, message.key_path)

\* Result::expect(msg): the value of an Ok, a panic with msg otherwise.
expect(result, msg) ==
    IF result.kind = "Ok" THEN result ELSE Panic(<<msg, result>>)

\* `if dbid > 0 { root_handler.for_new_client(0, dummy_peer, dbid) } else
\* { root_handler }`
select_handler(dbid) ==
    IF dbid > 0 THEN [client |-> dbid] ELSE [root |-> TRUE]

\* The body of the loop from the choice of the handler to the reply it has
\* to write: handler.handle(message).expect("handle").
handle_request(self, allow, message) ==
    LET reply == expect(handle(allow, message), "handle")
        chosen == [self EXCEPT !.handler = select_handler(self.header.dbid)]
    IN  IF reply.kind = "Panic"
        THEN [halt(chosen, "handle") EXCEPT !.result = handle(allow, message)]
        ELSE [chosen EXCEPT !.pc = "write_header", !.result = reply]

\* write_serial_response_header(&mut serial, sequence).expect("write reply
\* header")
write_reply_header(self, written) ==
    IF written.kind # "Ok"
    THEN halt(self, "write reply header")
    ELSE [self EXCEPT !.pc = "write_reply",
                      !.reply_header = [sequence |-> self.header.sequence]]

\* msgs::write_vec(&mut serial, reply.as_vec()).expect("write reply"); the
\* loop reads again.
write_reply(self, written) ==
    IF written.kind # "Ok"
    THEN halt(self, "write reply")
    ELSE [self EXCEPT !.pc = "read_header", !.reply = self.result]

\* ------------------------------------------------ set_next_holder_commit_num

\* A condition of the code that holds a + b: the panic of the addition in
\* a build with overflow checks when the sum leaves the u64 range, else
\* the value of the condition, computed on the wrapped sum.
checked_add(a, b, condition) ==
    IF overflow_checks /\ add_overflows(a, b)
    THEN Panic(<<"attempt to add with overflow">>)
    ELSE Ok(condition)

\* `num != current && num != current + 1`: the sum is computed only when
\* num != current.
holder_invalid_progression(self, num) ==
    LET current == self.next_holder_commit_num
    IN  IF num # current
        THEN checked_add(current, 1, num # current + 1)
        ELSE [kind |-> "Ok", val |-> FALSE]

\* Variant: a retry keeps the info that is already recorded.
holder_store_retry_keeps_info(self, num, current_commitment_info) ==
    IF num = self.next_holder_commit_num /\ self.current_holder_commit_info # None
    THEN [self EXCEPT !.next_holder_commit_num = num]
    ELSE [self EXCEPT !.next_holder_commit_num = num,
                      !.current_holder_commit_info = current_commitment_info]

\* Variant: the info is stored in the counterparty's field.
holder_store_counterparty_field(self, num, current_commitment_info) ==
    [self EXCEPT !.next_holder_commit_num = num,
                 !.current_counterparty_commit_info = current_commitment_info]

\* The two assignments of an accepted call.
holder_store(self, num, current_commitment_info) ==
    [self EXCEPT !.next_holder_commit_num = num,
                 !.current_holder_commit_info = current_commitment_info]

\* Variant: the info is stored before the progression is checked.
set_next_holder_commit_num_stores_first(self, num, current_commitment_info) ==
    LET stored == [self EXCEPT !.current_holder_commit_info = current_commitment_info]
        invalid == holder_invalid_progression(self, num)
    IN  IF invalid.kind = "Panic"
        THEN Outcome(stored, invalid)
        ELSE IF invalid.val
        THEN Outcome(stored, policy_err(<<"invalid progression: {} to {}",
                                          self.next_holder_commit_num, num>>))
        ELSE Outcome(holder_store(self, num, current_commitment_info), OkUnit)

set_next_holder_commit_num(self, num, current_commitment_info) ==
    LET invalid == holder_invalid_progression(self, num)
    IN  IF invalid.kind = "Panic"
        THEN Outcome(self, invalid)
        ELSE IF invalid.val
        THEN Outcome(self, policy_err(<<"invalid progression: {} to {}",
                                        self.next_holder_commit_num, num>>))
        ELSE Outcome(holder_store(self, num, current_commitment_info), OkUnit)

\* EnforcementState::get_current_holder_commitment_info: `commitment_number
\* + 1` wraps, or panics in a build with overflow checks; the unwrap panics
\* when no holder commitment info is recorded.
get_current_holder_commitment_info(self, commitment_number) ==
    IF overflow_checks /\ add_overflows(commitment_number, 1)
    THEN Panic(<<"attempt to add with overflow">>)
    ELSE IF commitment_number + 1 # self.next_holder_commit_num
    THEN policy_err(<<"invalid next holder commitment number: {} != {}",
                      commitment_number + 1, self.next_holder_commit_num>>)
    ELSE IF self.current_holder_commit_info = None
    THEN Panic(<<"called Option::unwrap() on a None value">>)
    ELSE Ok(self.current_holder_commit_info)

\* ------------------------------------------ set_next_counterparty_commit_num

\* Variant: the initial commitment is not special.
commit_delta_always_two(num) == 2

\* "The initial commitment is special, it can advance even though
\* next_revoke is 0."
commit_delta(num) == IF num = 1 THEN 1 ELSE 2

\* `num < self.next_counterparty_revoke_num + delta`
commit_too_small(self, num) ==
    checked_add(self.next_counterparty_revoke_num, commit_delta(num),
                ULt(num, self.next_counterparty_revoke_num + commit_delta(num)))

\* Variant: the upper limit is one too high.
commit_too_large_off_by_one(self, num) ==
    checked_add(self.next_counterparty_revoke_num, 3,
                UGt(num, self.next_counterparty_revoke_num + 3))

\* `num > self.next_counterparty_revoke_num + 2`
commit_too_large(self, num) ==
    checked_add(self.next_counterparty_revoke_num, 2,
                UGt(num, self.next_counterparty_revoke_num + 2))

\* Variant: the point is compared with the previous point.
commit_retry_compares_previous(self, num, current_point, current_commitment_info) ==
    IF self.current_counterparty_point = None
    THEN Outcome(self, Panic(<<"retry {}: current_counterparty_point not set, this shouldn't be possible", num>>))
    ELSE IF current_point # self.previous_counterparty_point
    THEN Outcome(self, policy_err(<<"retry {}: point different than prior", num>>))
    ELSE Outcome([self EXCEPT !.next_counterparty_commit_num = num], OkUnit)

\* Variant: an accepted retry moves the window as an advance does.
commit_retry_shifts(self, num, current_point, current_commitment_info) ==
    IF self.current_counterparty_point = None
    THEN Outcome(self, Panic(<<"retry {}: current_counterparty_point not set, this shouldn't be possible", num>>))
    ELSE IF current_point # self.current_counterparty_point
    THEN Outcome(self, policy_err(<<"retry {}: point different than prior", num>>))
    ELSE Outcome([self EXCEPT
                    !.previous_counterparty_point = self.current_counterparty_point,
                    !.previous_counterparty_commit_info = self.current_counterparty_commit_info,
                    !.current_counterparty_point = current_point,
                    !.current_counterparty_commit_info = current_commitment_info,
                    !.next_counterparty_commit_num = num], OkUnit)

\* Variant: the retry also requires the supplied info to equal the recorded
\* one (the comparison the FIXME of the retry branch asks for).
commit_retry_compares_info(self, num, current_point, current_commitment_info) ==
    IF self.current_counterparty_point = None
    THEN Outcome(self, Panic(<<"retry {}: current_counterparty_point not set, this shouldn't be possible", num>>))
    ELSE IF \/ current_point # self.current_counterparty_point
            \/ current_commitment_info # self.current_counterparty_commit_info
    THEN Outcome(self, policy_err(<<"retry {}: point different than prior", num>>))
    ELSE Outcome([self EXCEPT !.next_counterparty_commit_num = num], OkUnit)

\* Variant: the point is not compared.
commit_retry_ignores_point(self, num, current_point, current_commitment_info) ==
    IF self.current_counterparty_point = None
    THEN Outcome(self, Panic(<<"retry {}: current_counterparty_point not set, this shouldn't be possible", num>>))
    ELSE Outcome([self EXCEPT !.next_counterparty_commit_num = num], OkUnit)

\* The retry branch (num == current): the assertion that the current point
\* is set, the comparison of the point, and the store of the number.
commit_retry(self, num, current_point, current_commitment_info) ==
    IF self.current_counterparty_point = None
    THEN Outcome(self, Panic(<<"retry {}: current_counterparty_point not set, this shouldn't be possible", num>>))
    ELSE IF current_point # self.current_counterparty_point
    THEN Outcome(self, policy_err(<<"retry {}: point different than prior", num>>))
    ELSE Outcome([self EXCEPT !.next_counterparty_commit_num = num], OkUnit)

\* Variant: the current info is not moved to the previous one.
commit_advance_keeps_previous_info(self, num, current_point, current_commitment_info) ==
    [self EXCEPT
        !.previous_counterparty_point = self.current_counterparty_point,
        !.current_counterparty_point = current_point,
        !.current_counterparty_commit_info = current_commitment_info,
        !.next_counterparty_commit_num = num]

\* Variant: the current info is taken and the supplied info is not stored.
commit_advance_drops_info(self, num, current_point, current_commitment_info) ==
    [self EXCEPT
        !.previous_counterparty_point = self.current_counterparty_point,
        !.previous_counterparty_commit_info = self.current_counterparty_commit_info,
        !.current_counterparty_point = current_point,
        !.current_counterparty_commit_info = None,
        !.next_counterparty_commit_num = num]

\* Variant: the current point is not moved to the previous one.
commit_advance_keeps_previous_point(self, num, current_point, current_commitment_info) ==
    [self EXCEPT
        !.previous_counterparty_commit_info = self.current_counterparty_commit_info,
        !.current_counterparty_point = current_point,
        !.current_counterparty_commit_info = current_commitment_info,
        !.next_counterparty_commit_num = num]

\* The advance branch (num == current + 1): the window of two commitments
\* moves by one, and the number is stored.
commit_advance(self, num, current_point, current_commitment_info) ==
    [self EXCEPT
        !.previous_counterparty_point = self.current_counterparty_point,
        !.previous_counterparty_commit_info = self.current_counterparty_commit_info,
        !.current_counterparty_point = current_point,
        !.current_counterparty_commit_info = current_commitment_info,
        !.next_counterparty_commit_num = num]

\* Variant: the progression is looked at before the range against
\* next_counterparty_revoke_num.
set_next_counterparty_commit_num_progression_first(self, num, current_point, current_commitment_info) ==
    IF num = 0
    THEN Outcome(self, policy_err(<<"can't set next to 0">>))
    ELSE LET current == self.next_counterparty_commit_num
         IN  IF num # current /\ num # current + 1
             THEN Outcome(self, policy_err(<<"invalid progression: {} to {}", current, num>>))
             ELSE IF commit_too_small(self, num).kind = "Panic"
             THEN Outcome(self, commit_too_small(self, num))
             ELSE IF commit_too_small(self, num).val
             THEN Outcome(self, policy_err(<<"{} too small relative to next_counterparty_revoke_num {}",
                                             num, self.next_counterparty_revoke_num>>))
             ELSE IF commit_too_large(self, num).kind = "Panic"
             THEN Outcome(self, commit_too_large(self, num))
             ELSE IF commit_too_large(self, num).val
             THEN Outcome(self, policy_err(<<"{} too large relative to next_counterparty_revoke_num {}",
                                             num, self.next_counterparty_revoke_num>>))
             ELSE IF num = current
             THEN commit_retry(self, num, current_point, current_commitment_info)
             ELSE Outcome(commit_advance(self, num, current_point, current_commitment_info),
                          OkUnit)

set_next_counterparty_commit_num(self, num, current_point, current_commitment_info) ==
    IF num = 0
    THEN Outcome(self, policy_err(<<"can't set next to 0">>))
    ELSE IF commit_too_small(self, num).kind = "Panic"
    THEN Outcome(self, commit_too_small(self, num))
    ELSE IF commit_too_small(self, num).val
    THEN Outcome(self, policy_err(<<"{} too small relative to next_counterparty_revoke_num {}",
                                    num, self.next_counterparty_revoke_num>>))
    ELSE IF commit_too_large(self, num).kind = "Panic"
    THEN Outcome(self, commit_too_large(self, num))
    ELSE IF commit_too_large(self, num).val
    THEN Outcome(self, policy_err(<<"{} too large relative to next_counterparty_revoke_num {}",
                                    num, self.next_counterparty_revoke_num>>))
    ELSE LET current == self.next_counterparty_commit_num
         IN  IF num = current
             THEN commit_retry(self, num, current_point, current_commitment_info)
             ELSE IF checked_add(current, 1, num = current + 1).kind = "Panic"
             THEN Outcome(self, checked_add(current, 1, num = current + 1))
             ELSE IF num = current + 1
             THEN Outcome(commit_advance(self, num, current_point, current_commitment_info),
                          OkUnit)
             ELSE Outcome(self, policy_err(<<"invalid progression: {} to {}", current, num>>))

\* ------------------------------------------- get_previous_counterparty_point

\* The Option the query selects, or the out-of-range error; `num + 1` and
\* `num + 2` wrap, or panic in a build with overflow checks.
get_previous_counterparty_point(self, num) ==
    IF overflow_checks /\ add_overflows(num, 1)
    THEN Panic(<<"attempt to add with overflow">>)
    ELSE IF num + 1 = self.next_counterparty_commit_num
    THEN IF self.current_counterparty_point = None
         THEN Panic(<<"counterparty point for commit_num {} not set, next_commitment_number is {}",
                      num, self.next_counterparty_commit_num>>)
         ELSE Ok(self.current_counterparty_point)
    ELSE IF overflow_checks /\ add_overflows(num, 2)
    THEN Panic(<<"attempt to add with overflow">>)
    ELSE IF num + 2 = self.next_counterparty_commit_num
    THEN IF self.previous_counterparty_point = None
         THEN Panic(<<"counterparty point for commit_num {} not set, next_commitment_number is {}",
                      num, self.next_counterparty_commit_num>>)
         ELSE Ok(self.previous_counterparty_point)
    ELSE policy_err(<<"{} out of range, next is {}", num, self.next_counterparty_commit_num>>)

\* ------------------------------------------ set_next_counterparty_revoke_num

get_previous_counterparty_commit_info(self, num) ==
    IF overflow_checks /\ add_overflows(num, 1)
    THEN Panic(<<"attempt to add with overflow">>)
    ELSE IF num + 1 = self.next_counterparty_commit_num
    THEN IF self.current_counterparty_commit_info = None
         THEN Panic(<<"counterparty commit_info for commit_num {} not set, next_commitment_number is {}",
                      num, self.next_counterparty_commit_num>>)
         ELSE Ok(self.current_counterparty_commit_info)
    ELSE IF overflow_checks /\ add_overflows(num, 2)
    THEN Panic(<<"attempt to add with overflow">>)
    ELSE IF num + 2 = self.next_counterparty_commit_num
    THEN IF self.previous_counterparty_commit_info = None
         THEN Panic(<<"counterparty commit_info for commit_num {} not set, next_commitment_number is {}",
                      num, self.next_counterparty_commit_num>>)
         ELSE Ok(self.previous_counterparty_commit_info)
    ELSE policy_err(<<"{} out of range, next is {}", num, self.next_counterparty_commit_num>>)

\* Variant: only a skip forward is rejected.
revoke_invalid_progression_forward_only(self, num) ==
    LET current == self.next_counterparty_revoke_num
    IN  checked_add(current, 1, UGt(num, current + 1))

\* `num != current && num != current + 1`: the sum is computed only when
\* num != current.
revoke_invalid_progression(self, num) ==
    LET current == self.next_counterparty_revoke_num
    IN  IF num # current
        THEN checked_add(current, 1, num # current + 1)
        ELSE [kind |-> "Ok", val |-> FALSE]

\* Variant: the previous point is removed with the previous info.
revoke_remove_revoked_clears_point(self, num) ==
    IF num + 1 = self.next_counterparty_commit_num
    THEN [self EXCEPT !.previous_counterparty_commit_info = None,
                      !.previous_counterparty_point = None]
    ELSE self

\* Variant: every accepted call removes the previous info, the retry of a
\* revocation after the next commitment included.
revoke_remove_revoked_always(self, num) ==
    [self EXCEPT !.previous_counterparty_commit_info = None]

\* Variant: the previous info is left in place.
revoke_remove_revoked_keeps_info(self, num) == self

\* "Remove any revoked commitment state."
revoke_remove_revoked(self, num) ==
    IF num + 1 = self.next_counterparty_commit_num
    THEN [self EXCEPT !.previous_counterparty_commit_info = None]
    ELSE self

set_next_counterparty_revoke_num(self, num) ==
    IF num = 0
    THEN Outcome(self, policy_err(<<"can't set next to 0">>))
    ELSE IF overflow_checks /\ add_overflows(num, 2)
    THEN Outcome(self, Panic(<<"attempt to add with overflow">>))
    ELSE IF ULt(num + 2, self.next_counterparty_commit_num)
    THEN Outcome(self, policy_err(<<"{} too small relative to next_counterparty_commit_num {}",
                                    num, self.next_counterparty_commit_num>>))
    ELSE IF overflow_checks /\ add_overflows(num, 1)
    THEN Outcome(self, Panic(<<"attempt to add with overflow">>))
    ELSE IF UGt(num + 1, self.next_counterparty_commit_num)
    THEN Outcome(self, policy_err(<<"{} too large relative to next_counterparty_commit_num {}",
                                    num, self.next_counterparty_commit_num>>))
    ELSE IF revoke_invalid_progression(self, num).kind = "Panic"
    THEN Outcome(self, revoke_invalid_progression(self, num))
    ELSE IF revoke_invalid_progression(self, num).val
    THEN Outcome(self, policy_err(<<"invalid progression: {} to {}",
                                    self.next_counterparty_revoke_num, num>>))
    ELSE Outcome([revoke_remove_revoked(self, num)
                      EXCEPT !.next_counterparty_revoke_num = num],
                 OkUnit)

\* ------------------------------------ the setters of the test_utils feature

\* EnforcementState::set_next_holder_commit_num_for_testing: the number is
\* stored without a check, the holder commitment info stays.
set_next_holder_commit_num_for_testing(self, num) ==
    [self EXCEPT !.next_holder_commit_num = num]

\* EnforcementState::set_next_counterparty_commit_num_for_testing: the
\* points shift and the number is stored without a check, the commitment
\* infos stay.
set_next_counterparty_commit_num_for_testing(self, num, current_point) ==
    [self EXCEPT
        !.previous_counterparty_point = self.current_counterparty_point,
        !.current_counterparty_point = current_point,
        !.next_counterparty_commit_num = num]

\* EnforcementState::set_next_counterparty_revoke_num_for_testing: the
\* number is stored without a check.
set_next_counterparty_revoke_num_for_testing(self, num) ==
    [self EXCEPT !.next_counterparty_revoke_num = num]

\* ------------------------------------------------- validate_mutual_close_tx

\* The one mutation of an accepted mutual close: the flag is set.  The
\* close is validated against the current commitments of both sides.
mutual_close_accepted(self) ==
    /\ self.current_holder_commit_info # None
    /\ self.current_counterparty_commit_info # None

sign_mutual_close(self) == [self EXCEPT !.mutual_close_signed = TRUE]

\* --------------------------------------------------------------- the calls

\* The record of a call.
Call(op, num, point, info, pre, res) ==
    [op |-> op, num |-> num, point |-> point, info |-> info, pre |-> pre, res |-> res]

\* The counters stay within the model's bounds.
WithinBounds(state) ==
    /\ state.next_counterparty_commit_num <= MaxCommitNum
    /\ state.next_holder_commit_num <= MaxHolderNum

\* The arguments of an accepted advance to commit number num join the record
\* of the last two advances.
Record(history, num, point, info) ==
    [k \in {num} \cup (DOMAIN history \cap {num - 1}) |->
        IF k = num THEN [point |-> point, info |-> info] ELSE history[k]]

\* A new node: no thread holds its channels, and its allowlist is empty.
NodeIdle ==
    /\ mutex = new_mutex
    /\ threads = [t \in Threads |-> idle_thread]
    /\ allowlist = {}
    /\ channel = new_channel
    /\ serial = new_serial

Init ==
    /\ overflow_checks \in BOOLEAN
    /\ \E v \in InitialHolderValues :
          /\ estate = new(v)
          /\ last = Call("new", v, None, None, new(v), OkUnit)
    /\ supplied = [k \in {} |-> None]
    /\ request = None
    /\ NodeIdle

SetNextHolderCommitNum ==
    \E num \in NumArgs, info \in Infos :
        LET out == set_next_holder_commit_num(estate, num, info)
        IN  /\ WithinBounds(out.state)
            /\ estate' = out.state
            /\ last' = Call("set_next_holder_commit_num", num, None, info, estate, out.res)
            /\ UNCHANGED <<supplied, overflow_checks, request, mutex, threads, allowlist, channel, serial>>

SetNextCounterpartyCommitNum ==
    \E num \in NumArgs, point \in Points, info \in Infos :
        LET out == set_next_counterparty_commit_num(estate, num, point, info)
        IN  /\ WithinBounds(out.state)
            /\ estate' = out.state
            /\ last' = Call("set_next_counterparty_commit_num", num, point, info, estate, out.res)
            /\ supplied' =
                  IF out.res.kind = "Ok" /\ num = estate.next_counterparty_commit_num + 1
                  THEN Record(supplied, num, point, info)
                  ELSE supplied
            /\ UNCHANGED <<overflow_checks, request, mutex, threads, allowlist, channel, serial>>

SetNextCounterpartyRevokeNum ==
    \E num \in NumArgs :
        LET out == set_next_counterparty_revoke_num(estate, num)
        IN  /\ estate' = out.state
            /\ last' = Call("set_next_counterparty_revoke_num", num, None, None, estate, out.res)
            /\ UNCHANGED <<supplied, overflow_checks, request, mutex, threads, allowlist, channel, serial>>

GetPreviousCounterpartyPoint ==
    \E num \in NumArgs :
        /\ last' = Call("get_previous_counterparty_point", num, None, None, estate,
                        get_previous_counterparty_point(estate, num))
        /\ UNCHANGED <<estate, supplied, overflow_checks, request, mutex, threads, allowlist, channel, serial>>

ValidateMutualCloseTx ==
    /\ mutual_close_accepted(estate)
    /\ estate' = sign_mutual_close(estate)
    /\ last' = Call("validate_mutual_close_tx", 0, None, None, estate, OkUnit)
    /\ UNCHANGED <<supplied, overflow_checks, request, mutex, threads, allowlist, channel, serial>>

Next ==
    \/ SetNextHolderCommitNum
    \/ SetNextCounterpartyCommitNum
    \/ SetNextCounterpartyRevokeNum
    \/ GetPreviousCounterpartyPoint
    \/ ValidateMutualCloseTx

Spec == Init /\ [][Next]_vars

\* ---------------------------------------------- the setters and the getters

GetPreviousCounterpartyCommitInfo ==
    \E num \in NumArgs :
        /\ last' = Call("get_previous_counterparty_commit_info", num, None, None, estate,
                        get_previous_counterparty_commit_info(estate, num))
        /\ UNCHANGED <<estate, supplied, overflow_checks, request, mutex, threads, allowlist, channel, serial>>

GetCurrentHolderCommitmentInfo ==
    \E commitment_number \in NumArgs :
        /\ last' = Call("get_current_holder_commitment_info", commitment_number, None, None,
                        estate, get_current_holder_commitment_info(estate, commitment_number))
        /\ UNCHANGED <<estate, supplied, overflow_checks, request, mutex, threads, allowlist, channel, serial>>

NextGetters ==
    \/ SetNextHolderCommitNum
    \/ SetNextCounterpartyCommitNum
    \/ SetNextCounterpartyRevokeNum
    \/ GetPreviousCounterpartyCommitInfo
    \/ GetCurrentHolderCommitmentInfo

SpecGetters == Init /\ [][NextGetters]_vars

\* ------------------------------------- a build with the test_utils feature

\* The functions compiled with #[cfg(feature = "test_utils")] return
\* nothing; the record of accepted advances is left as it is, since they
\* are no advance of the state machine.
SetNextHolderCommitNumForTesting ==
    \E num \in NumArgs :
        /\ WithinBounds(set_next_holder_commit_num_for_testing(estate, num))
        /\ estate' = set_next_holder_commit_num_for_testing(estate, num)
        /\ last' = Call("set_next_holder_commit_num_for_testing", num, None, None, estate,
                        [unit |-> TRUE])
        /\ UNCHANGED <<supplied, overflow_checks, request, mutex, threads, allowlist, channel, serial>>

SetNextCounterpartyCommitNumForTesting ==
    \E num \in NumArgs, current_point \in Points :
        /\ estate' = set_next_counterparty_commit_num_for_testing(estate, num, current_point)
        /\ last' = Call("set_next_counterparty_commit_num_for_testing", num, current_point,
                        None, estate, [unit |-> TRUE])
        /\ UNCHANGED <<supplied, overflow_checks, request, mutex, threads, allowlist, channel, serial>>

SetNextCounterpartyRevokeNumForTesting ==
    \E num \in NumArgs :
        /\ estate' = set_next_counterparty_revoke_num_for_testing(estate, num)
        /\ last' = Call("set_next_counterparty_revoke_num_for_testing", num, None, None,
                        estate, [unit |-> TRUE])
        /\ UNCHANGED <<supplied, overflow_checks, request, mutex, threads, allowlist, channel, serial>>

\* A state set up with the three unchecked setters, and what the getters
\* return for it.
NextTesting ==
    \/ GetPreviousCounterpartyPoint
    \/ GetPreviousCounterpartyCommitInfo
    \/ GetCurrentHolderCommitmentInfo
    \/ SetNextHolderCommitNumForTesting
    \/ SetNextCounterpartyCommitNumForTesting
    \/ SetNextCounterpartyRevokeNumForTesting

SpecTesting == Init /\ [][NextTesting]_vars

\* A channel with a counter that the unchecked setters have put at the top
\* of the u64 range: after one call, and after a revoke number at the top
\* and a commit number within the bounds.
TopStates ==
    {set_next_holder_commit_num_for_testing(new(0), U64Max)}
    \cup {set_next_counterparty_commit_num_for_testing(new(0), U64Max, point) :
            point \in Points}
    \cup {set_next_counterparty_revoke_num_for_testing(new(0), num) :
            num \in {U64Max - 1, U64Max}}
    \cup {set_next_counterparty_commit_num_for_testing(
              set_next_counterparty_revoke_num_for_testing(new(0), U64Max),
              MaxCommitNum, point) : point \in Points}

InitTop ==
    /\ overflow_checks \in BOOLEAN
    /\ estate \in TopStates
    /\ last = Call("new", 0, None, None, new(0), OkUnit)
    /\ supplied = [k \in {} |-> None]
    /\ request = None
    /\ NodeIdle

\* The checked setters on such a channel.
NextTop ==
    \/ SetNextHolderCommitNum
    \/ SetNextCounterpartyCommitNum
    \/ SetNextCounterpartyRevokeNum

SpecTop == InitTop /\ [][NextTop]_vars

\* ------------------------------------------------- the queries on a channel

\* The state of a channel whose holder commitment is h and whose
\* counterparty commitment is c (None: not signed yet), as the setters
\* leave it.
channel_with(initial_holder_value, h, c) ==
    LET s0 == new(initial_holder_value)
        s1 == IF h = None THEN s0 ELSE set_next_holder_commit_num(s0, 1, h).state
    IN  IF c = None THEN s1 ELSE set_next_counterparty_commit_num(s1, 1, [point |-> "P0"], c).state

\* A channel with commitments drawn from the given set, asked one of the
\* given queries.
InitChannel(initial_holder_values, commitments, requests) ==
    /\ overflow_checks \in BOOLEAN
    /\ request \in requests
    /\ NodeIdle
    /\ \E v \in initial_holder_values, h \in commitments \cup {None},
          c \in commitments \cup {None} :
          /\ estate = channel_with(v, h, c)
          /\ last = Call("new", v, None, None, new(v), OkUnit)
          /\ supplied = IF c = None THEN [k \in {} |-> None]
                                   ELSE Record([k \in {} |-> None], 1, [point |-> "P0"], c)

InitMinimum == InitChannel(InitialHolderValues, ValueCommitments, {None})

MinimumToHolderValue ==
    \E epsilon_sat \in 0 .. MaxSat :
        /\ last' = Call("minimum_to_holder_value", epsilon_sat, None, None, estate,
                        minimum_to_holder_value(estate, epsilon_sat))
        /\ UNCHANGED <<estate, supplied, overflow_checks, request, mutex, threads, allowlist, channel, serial>>

MinimumToCounterpartyValue ==
    \E epsilon_sat \in 0 .. MaxSat :
        /\ last' = Call("minimum_to_counterparty_value", epsilon_sat, None, None, estate,
                        minimum_to_counterparty_value(estate, epsilon_sat))
        /\ UNCHANGED <<estate, supplied, overflow_checks, request, mutex, threads, allowlist, channel, serial>>

NextMinimum ==
    \/ MinimumToHolderValue
    \/ MinimumToCounterpartyValue

SpecMinimum == InitMinimum /\ [][NextMinimum]_vars

\* The arguments of a payment summary.
PaymentRequests ==
    [new_holder_tx : PaymentCommitments(MaxHtlcs) \cup {None},
     new_counterparty_tx : PaymentCommitments(MaxHtlcs) \cup {None}]

\* The current commitments of the channels the summaries are asked of: no
\* HTLC, or a single one.
CurrentPaymentCommitments ==
    {c \in PaymentCommitments(MaxHtlcs) :
        Len(c.offered_htlcs) + Len(c.received_htlcs) <= 1}

InitPayments == InitChannel(InitialHolderValues, CurrentPaymentCommitments, PaymentRequests)

\* A returned Map<PaymentHash, u64>
MapRes(m) == [kind |-> "Map", val |-> m]

PaymentsSummary ==
    /\ last' = Call("payments_summary", 0, None,
                    <<request.new_holder_tx, request.new_counterparty_tx>>, estate,
                    MapRes(payments_summary(estate, request.new_holder_tx,
                                            request.new_counterparty_tx)))
    /\ UNCHANGED <<estate, supplied, overflow_checks, request, mutex, threads, allowlist, channel, serial>>

IncomingPaymentsSummary ==
    /\ last' = Call("incoming_payments_summary", 0, None,
                    <<request.new_holder_tx, request.new_counterparty_tx>>, estate,
                    MapRes(incoming_payments_summary(estate, request.new_holder_tx,
                                                     request.new_counterparty_tx)))
    /\ UNCHANGED <<estate, supplied, overflow_checks, request, mutex, threads, allowlist, channel, serial>>

NextPayments ==
    \/ PaymentsSummary
    \/ IncomingPaymentsSummary

SpecPayments == InitPayments /\ [][NextPayments]_vars

\* The commitments of the channels asked for their balances: every pair of
\* balances without HTLCs, and the commitments of one HTLC.
BalanceCommitments == ValueCommitments \cup CurrentPaymentCommitments

\* The new_holder_tx / new_counterparty_tx arguments: one new commitment on
\* either side, and the calls the assertions reject (none, or one on both
\* sides).
NewTxPairs ==
    {<<None, None>>}
        \cup {<<tx, None>> : tx \in BalanceCommitments}
        \cup {<<None, tx>> : tx \in BalanceCommitments}
        \cup {<<tx, tx>> : tx \in BalanceCommitments}

\* ChannelSetup values (the fields read).
ChannelSetups == [is_outbound : BOOLEAN, channel_value_sat : {10}]

\* The arguments of claimable_balances.
BalanceRequests ==
    {[preimage_map |-> m, new_holder_tx |-> pair[1], new_counterparty_tx |-> pair[2],
      channel_setup |-> setup] :
        m \in SUBSET Hashes, pair \in NewTxPairs, setup \in ChannelSetups}

\* The initial value of a funder: more than any balance drawn.
FunderInitialValues == {5}

InitBalances == InitChannel(FunderInitialValues, BalanceCommitments, BalanceRequests)

ClaimableBalances ==
    /\ last' = Call("claimable_balances", 0, None,
                    <<request.new_holder_tx, request.new_counterparty_tx>>, estate,
                    claimable_balances(estate, request.preimage_map, request.new_holder_tx,
                                       request.new_counterparty_tx, request.channel_setup))
    /\ UNCHANGED <<estate, supplied, overflow_checks, request, mutex, threads, allowlist, channel, serial>>

NextBalances == ClaimableBalances

SpecBalances == InitBalances /\ [][NextBalances]_vars

\* -------------------------------------------- threads on the channels of a node

InitNode ==
    /\ overflow_checks \in BOOLEAN
    /\ \E v \in InitialHolderValues :
          /\ estate = new(v)
          /\ last = Call("new", v, None, None, new(v), OkUnit)
    /\ supplied = [k \in {} |-> None]
    /\ request = None
    /\ NodeIdle

\* node.channels(): lock() returns the guard once no other guard is out.
Channels(t) ==
    /\ threads[t].pc = "idle"
    /\ estate.next_holder_commit_num < MaxChannelOps
    /\ lock_available(mutex)
    /\ ~mutex.poisoned
    /\ mutex' = [mutex EXCEPT !.guards = @ \cup {t}]
    /\ threads' = [threads EXCEPT ![t].pc = "guard"]
    /\ UNCHANGED <<estate, last, supplied, overflow_checks, request, allowlist, channel, serial>>

\* node.channels() on a poisoned mutex: unwrap() panics.
ChannelsPoisoned(t) ==
    /\ threads[t].pc = "idle"
    /\ lock_available(mutex)
    /\ mutex.poisoned
    /\ threads' = [threads EXCEPT ![t].pc = "panicked"]
    /\ UNCHANGED <<estate, last, supplied, overflow_checks, request, mutex, allowlist, channel, serial>>

\* Under the guard: the thread reads the channel's state.
ReadChannel(t) ==
    /\ threads[t].pc = "guard"
    /\ threads' = [threads EXCEPT ![t].pc = "read",
                                  ![t].seen = estate.next_holder_commit_num]
    /\ UNCHANGED <<estate, last, supplied, overflow_checks, request, mutex, allowlist, channel, serial>>

\* Under the guard: the thread advances the channel from the state it read.
WriteChannel(t) ==
    /\ threads[t].pc = "read"
    /\ \E info \in Infos :
          LET out == set_next_holder_commit_num(estate, threads[t].seen + 1, info)
          IN  /\ estate' = out.state
              /\ last' = Call("set_next_holder_commit_num", threads[t].seen + 1, None,
                              info, estate, out.res)
    /\ threads' = [threads EXCEPT ![t].pc = "written", ![t].completed = @ + 1]
    /\ UNCHANGED <<supplied, overflow_checks, request, mutex, allowlist, channel, serial>>

\* The guard goes out of scope: the mutex is released.
DropGuard(t) ==
    /\ threads[t].pc = "written"
    /\ mutex' = [mutex EXCEPT !.guards = @ \ {t}]
    /\ threads' = [threads EXCEPT ![t].pc = "idle"]
    /\ UNCHANGED <<estate, last, supplied, overflow_checks, request, allowlist, channel, serial>>

\* A panic under the guard (an expect() on a channel that is not accepted):
\* unwinding drops the guard and poisons the mutex.
PanicInChannel(t) ==
    /\ threads[t].pc \in {"guard", "read"}
    /\ mutex' = [guards |-> mutex.guards \ {t}, poisoned |-> TRUE]
    /\ threads' = [threads EXCEPT ![t].pc = "panicked"]
    /\ UNCHANGED <<estate, last, supplied, overflow_checks, request, allowlist, channel, serial>>

NextNode ==
    \E t \in Threads :
        \/ Channels(t)
        \/ ChannelsPoisoned(t)
        \/ ReadChannel(t)
        \/ WriteChannel(t)
        \/ DropGuard(t)
        \/ PanicInChannel(t)

SpecNode == InitNode /\ [][NextNode]_vars

\* ------------------------------------------- requests waiting for the channels

\* A node whose channel has its first counterparty commitment.
InitLock ==
    /\ overflow_checks \in BOOLEAN
    /\ \E v \in InitialHolderValues, c \in Infos :
          /\ estate = channel_with(v, None, c)
          /\ last = Call("new", v, None, None, new(v), OkUnit)
          /\ supplied = Record([k \in {} |-> None], 1, [point |-> "P0"], c)
    /\ request = None
    /\ NodeIdle

\* A request arrives: the thread is about to call node.channels().
Request(t) ==
    /\ threads[t].pc = "idle"
    /\ threads' = [threads EXCEPT ![t].pc = "calling"]
    /\ UNCHANGED <<estate, last, supplied, overflow_checks, request, mutex, allowlist, channel, serial>>

\* lock() returns the guard.
Lock(t) ==
    /\ threads[t].pc = "calling"
    /\ lock_available(mutex)
    /\ ~mutex.poisoned
    /\ mutex' = [mutex EXCEPT !.guards = @ \cup {t}]
    /\ threads' = [threads EXCEPT ![t].pc = "guard"]
    /\ UNCHANGED <<estate, last, supplied, overflow_checks, request, allowlist, channel, serial>>

\* lock() returns a PoisonError and unwrap() panics.
LockPoisoned(t) ==
    /\ threads[t].pc = "calling"
    /\ lock_available(mutex)
    /\ mutex.poisoned
    /\ threads' = [threads EXCEPT ![t].pc = "panicked"]
    /\ UNCHANGED <<estate, last, supplied, overflow_checks, request, mutex, allowlist, channel, serial>>

\* The operation under the guard, with its three exits: Ok and the policy
\* error return to the caller, which still holds the guard; a panic unwinds,
\* which drops the guard and poisons the mutex.
Operate(t) ==
    /\ threads[t].pc = "guard"
    /\ \E num \in {0, 1, U64Max} :
          LET res == get_previous_counterparty_commit_info(estate, num)
          IN  /\ last' = Call("get_previous_counterparty_commit_info", num, None, None,
                              estate, res)
              /\ IF res.kind = "Panic"
                 THEN /\ mutex' = [guards |-> mutex.guards \ {t}, poisoned |-> TRUE]
                      /\ threads' = [threads EXCEPT ![t].pc = "panicked"]
                 ELSE /\ mutex' = mutex
                      /\ threads' = [threads EXCEPT ![t].pc = "returned"]
    /\ UNCHANGED <<estate, supplied, overflow_checks, request, allowlist, channel, serial>>

\* The caller is done with the result: the guard goes out of scope.
Unlock(t) ==
    /\ threads[t].pc = "returned"
    /\ mutex' = [mutex EXCEPT !.guards = @ \ {t}]
    /\ threads' = [threads EXCEPT ![t].pc = "idle"]
    /\ UNCHANGED <<estate, last, supplied, overflow_checks, request, allowlist, channel, serial>>

NextLock ==
    \E t \in Threads :
        \/ Request(t)
        \/ Lock(t)
        \/ LockPoisoned(t)
        \/ Operate(t)
        \/ Unlock(t)

\* Fair scheduling: a thread inside node.channels() or under the guard keeps
\* running, and a thread that finds the mutex free again and again gets it.
FairLock ==
    \A t \in Threads :
        /\ SF_<<mutex, threads>>(Lock(t))
        /\ WF_<<mutex, threads>>(LockPoisoned(t))
        /\ WF_<<mutex, threads>>(Operate(t))
        /\ WF_<<mutex, threads>>(Unlock(t))

SpecLock == InitLock /\ [][NextLock]_vars /\ FairLock

\* ------------------------------------- two requests for the next commitment

\* The channels two concurrent requests start from, one of every shape the
\* setters leave up to MaxCommitNum: a new channel, a channel with its first
\* counterparty commitment (1, 0), one with a second commitment while the
\* first is not revoked (2, 0), one whose first commitment is revoked (2, 1),
\* and the same two shapes one commitment later, (3, 1) and (3, 2).
RaceChannels ==
    LET none == [k \in {} |-> None]
        commit(ch, num, point, c) ==
            [state |-> set_next_counterparty_commit_num(ch.state, num, point, c).state,
             history |-> Record(ch.history, num, point, c)]
        revoke(ch, num) ==
            [state |-> set_next_counterparty_revoke_num(ch.state, num).state,
             history |-> ch.history]
        first(c) == [state |-> channel_with(0, None, c),
                     history |-> Record(none, 1, [point |-> "P0"], c)]
        second(c) == commit(first(c), 2, [point |-> "P1"], c)
        third(c) == commit(revoke(second(c), 1), 3, [point |-> "P0"], c)
    IN  {[state |-> new(0), history |-> none]}
        \cup {first(c) : c \in Infos}
        \cup {second(c) : c \in Infos}
        \cup {revoke(second(c), 1) : c \in Infos}
        \cup {third(c) : c \in Infos}
        \cup {revoke(third(c), 2) : c \in Infos}

\* Each thread has a request that carries the next counterparty commitment
\* number of the channel, with its own point and info.
InitRace ==
    /\ overflow_checks \in BOOLEAN
    /\ \E ch \in RaceChannels :
          /\ estate = ch.state
          /\ supplied = ch.history
          /\ last = Call("new", 0, None, None, new(0), OkUnit)
          /\ request \in [Threads -> [num : {ch.state.next_counterparty_commit_num + 1},
                                      point : Points, info : Infos]]
    /\ NodeIdle

\* The request of a thread arrives: it is about to call node.channels().
RaceRequest(t) ==
    /\ threads[t].pc = "idle"
    /\ threads[t].completed = 0
    /\ threads' = [threads EXCEPT ![t].pc = "calling"]
    /\ UNCHANGED <<estate, last, supplied, overflow_checks, request, mutex, allowlist, channel, serial>>

\* Under the guard: `let current = self.next_counterparty_commit_num`.
ReadCurrent(t) ==
    /\ threads[t].pc = "guard"
    /\ threads' = [threads EXCEPT ![t].pc = "read",
                                  ![t].seen = estate.next_counterparty_commit_num]
    /\ UNCHANGED <<estate, last, supplied, overflow_checks, request, mutex, allowlist, channel, serial>>

\* Under the guard: the request is evaluated against the current number the
\* thread read, and applied.
ApplyCommit(t) ==
    /\ threads[t].pc = "read"
    /\ LET r == request[t]
           pre == [estate EXCEPT !.next_counterparty_commit_num = threads[t].seen]
           out == set_next_counterparty_commit_num(pre, r.num, r.point, r.info)
       IN  /\ estate' = out.state
           /\ last' = Call("set_next_counterparty_commit_num", r.num, r.point, r.info,
                           estate, out.res)
           /\ supplied' = IF out.res.kind = "Ok" /\ r.num = threads[t].seen + 1
                          THEN Record(supplied, r.num, r.point, r.info)
                          ELSE supplied
    /\ threads' = [threads EXCEPT ![t].pc = "returned", ![t].completed = 1]
    /\ UNCHANGED <<overflow_checks, request, mutex, allowlist, channel, serial>>

NextRace ==
    \E t \in Threads :
        \/ RaceRequest(t)
        \/ Lock(t)
        \/ ReadCurrent(t)
        \/ ApplyCommit(t)
        \/ Unlock(t)

SpecRace == InitRace /\ [][NextRace]_vars

\* ------------------------------------------------------------ delayed sweeps

\* A node with an empty allowlist and a channel, asked to sign a sweep.
InitSweep ==
    /\ overflow_checks \in BOOLEAN
    /\ request \in SweepRequests
    /\ \E v \in InitialHolderValues :
          /\ estate = new(v)
          /\ last = Call("new", v, None, None, new(v), OkUnit)
    /\ supplied = [k \in {} |-> None]
    /\ NodeIdle

SignDelayedSweep ==
    /\ last' = Call("sign_delayed_sweep", request.input, None, None, estate,
                    sign_delayed_sweep(allowlist, ContestDelay, request.tx, request.input,
                                       request.amount_sat, request.key_path))
    /\ UNCHANGED <<estate, supplied, overflow_checks, request, mutex, threads, allowlist, channel, serial>>

\* node.add_allowlist(addresses): the addresses' scripts are in the
\* allowlist when it returns.
AddAllowlist ==
    \E script \in Scripts :
        /\ allowlist' = allowlist_add(allowlist, {script})
        /\ last' = Call("add_allowlist", 0, None, {script}, estate, OkUnit)
        /\ UNCHANGED <<estate, supplied, overflow_checks, request, mutex, threads,
                       channel, serial>>

NextSweep ==
    \/ SignDelayedSweep
    \/ AddAllowlist

SpecSweep == InitSweep /\ [][NextSweep]_vars

\* --------------------------------------------------------- channel setup

\* A new channel of an idle node.
InitSetup ==
    /\ overflow_checks \in BOOLEAN
    /\ \E v \in InitialHolderValues : estate = new(v)
    /\ supplied = << >>
    /\ request = None
    /\ NodeIdle
    /\ last = Call("new", 0, None, None, estate, OkUnit)

\* What a call on the channel leaves: the channel, unless it panicked.
SetChannel(op, info, out) ==
    /\ channel' = out.state
    /\ last' = Call(op, 0, None, info, estate, out.res)
    /\ UNCHANGED <<estate, supplied, overflow_checks, request, mutex, threads,
                   allowlist, serial>>

AcceptRemotePoints ==
    \E channel_points \in ChannelPublicKeys, asserts_unset \in BOOLEAN :
        SetChannel("accept_remote_points", channel_points,
                   accept_remote_points(channel, channel_points, asserts_unset))

AcceptRemoteConfig ==
    \E config \in RemoteChannelConfigs :
        SetChannel("accept_remote_config", config,
                   accept_remote_config(channel, config))

Ready ==
    \E channel_points \in ChannelPublicKeys, config \in RemoteChannelConfigs,
       asserts_unset \in BOOLEAN :
        SetChannel("ready", [points |-> channel_points, config |-> config],
                   ready(channel, channel_points, config, asserts_unset))

NextSetup ==
    \/ AcceptRemoteConfig
    \/ Ready
    \/ AcceptRemotePoints

SpecSetup == InitSetup /\ [][NextSetup]_vars

\* ------------------------------------------------- the signer's requests

\* The signer when main starts: nothing read from the serial port yet.
InitSigner ==
    /\ overflow_checks \in BOOLEAN
    /\ \E v \in InitialHolderValues : estate = new(v)
    /\ supplied = << >>
    /\ request = None
    /\ NodeIdle
    /\ last = Call("new", 0, None, None, estate, OkUnit)

\* The init header is read and asserted.
ReadInitHeader ==
    /\ serial.pc = "init"
    /\ \E read \in Reads(Headers) : serial' = read_init_header(serial, read)
    /\ UNCHANGED <<estate, last, supplied, overflow_checks, request, mutex, threads,
                   allowlist, channel>>

\* The init message is read.
ReadInitMessage ==
    /\ serial.pc = "init_message"
    /\ \E read \in Reads(InitMessages) : serial' = read_init_message(serial, read)
    /\ UNCHANGED <<estate, last, supplied, overflow_checks, request, mutex, threads,
                   allowlist, channel>>

\* The root handler is made with the dev_allowlist of the init message, and
\* handles the message.
HandleInit ==
    /\ serial.pc = "init_handle"
    /\ \E handled \in BOOLEAN : serial' = handle_init(serial, handled)
    /\ allowlist' = init_allowlist(serial, allowlist)
    /\ UNCHANGED <<estate, last, supplied, overflow_checks, request, mutex, threads,
                   channel>>

WriteInitHeader ==
    /\ serial.pc = "init_write_header"
    /\ \E written \in Writes : serial' = write_init_header(serial, written)
    /\ UNCHANGED <<estate, last, supplied, overflow_checks, request, mutex, threads,
                   allowlist, channel>>

WriteInitReply ==
    /\ serial.pc = "init_write_reply"
    /\ \E written \in Writes : serial' = write_init_reply(serial, written)
    /\ UNCHANGED <<estate, last, supplied, overflow_checks, request, mutex, threads,
                   allowlist, channel>>

\* The header of the next request is read.
ReadRequestHeader ==
    /\ serial.pc = "read_header"
    /\ \E read \in Reads(Headers) : serial' = read_request_header(serial, read)
    /\ UNCHANGED <<estate, last, supplied, overflow_checks, request, mutex, threads,
                   allowlist, channel>>

\* The message of the request is read, after its header.
ReadRequest ==
    /\ serial.pc = "read_message"
    /\ \E read \in Reads(SignerMessages) :
          /\ serial' = read_request(serial, read)
          /\ request' = IF read.kind = "Ok" THEN read.val ELSE request
    /\ UNCHANGED <<estate, last, supplied, overflow_checks, mutex, threads,
                   allowlist, channel>>

\* handler.handle(message).expect("handle")
HandleRequest ==
    /\ serial.pc = "handle"
    /\ serial' = handle_request(serial, allowlist, request)
    /\ last' = Call("handle", request.input, None, None, estate, handle(allowlist, request))
    /\ UNCHANGED <<estate, supplied, overflow_checks, request, mutex, threads,
                   allowlist, channel>>

WriteReplyHeader ==
    /\ serial.pc = "write_header"
    /\ \E written \in Writes : serial' = write_reply_header(serial, written)
    /\ UNCHANGED <<estate, last, supplied, overflow_checks, request, mutex, threads,
                   allowlist, channel>>

\* The reply is written and the loop reads again.
WriteReply ==
    /\ serial.pc = "write_reply"
    /\ \E written \in Writes : serial' = write_reply(serial, written)
    /\ UNCHANGED <<estate, last, supplied, overflow_checks, request, mutex, threads,
                   allowlist, channel>>

NextSigner ==
    \/ ReadInitHeader
    \/ ReadInitMessage
    \/ HandleInit
    \/ WriteInitHeader
    \/ WriteInitReply
    \/ ReadRequestHeader
    \/ ReadRequest
    \/ HandleRequest
    \/ WriteReplyHeader
    \/ WriteReply

SpecSigner == InitSigner /\ [][NextSigner]_vars

\* ------------------------------------------- counterparty commitment signing

\* What a query on the channel returns; the request keeps what the
\* libraries returned to it.
AskChannel(op, commitment_number, library, res) ==
    /\ last' = Call(op, commitment_number, None, None, estate, res)
    /\ request' = [commitment_number |-> commitment_number, library |-> library]
    /\ UNCHANGED <<estate, supplied, overflow_checks, mutex, threads,
                   allowlist, channel, serial>>

BuildCommitmentTx ==
    \E commitment_number \in {0, 1, U64Max}, library \in LibraryOutcomes :
        AskChannel("build_commitment_tx", commitment_number, library,
                   build_commitment_tx(channel, commitment_number, library))

BuildRemoteCommitmentInfo ==
    \E library \in LibraryOutcomes :
        AskChannel("build_remote_commitment_info", 0, library,
                   build_remote_commitment_info(channel, library))

SignRemoteCommitmentTxPhase2 ==
    \E commitment_number \in {0, 1, U64Max}, library \in LibraryOutcomes :
        AskChannel("sign_remote_commitment_tx_phase2", commitment_number, library,
                   sign_remote_commitment_tx_phase2(channel, commitment_number, library))

NextSign ==
    \/ AcceptRemoteConfig
    \/ Ready
    \/ AcceptRemotePoints
    \/ BuildCommitmentTx
    \/ BuildRemoteCommitmentInfo
    \/ SignRemoteCommitmentTxPhase2

SpecSign == InitSetup /\ [][NextSign]_vars

\* ------------------------------------------------------------- properties

\* The result r is of the given kind and carries the given value.
ResIs(r, kind, val) == r.kind = kind /\ r.val = val

\* The call recorded in `last` is a call of op.
Called(op) == last.op = op

\* The retry of the counterparty commitment: the number is the current one
\* (at least 1) and the point is the recorded one.
IsRetry ==
    /\ Called("set_next_counterparty_commit_num")
    /\ last.pre.next_counterparty_commit_num >= 1
    /\ last.num = last.pre.next_counterparty_commit_num
    /\ last.point = last.pre.current_counterparty_point

\* The retry passes the checks against next_counterparty_revoke_num: the
\* commitment before the current one has not been revoked.
RetryInRange(self) ==
    \/ self.next_counterparty_commit_num = 1
    \/ self.next_counterparty_commit_num = self.next_counterparty_revoke_num + 2

\* next_counterparty_revoke_num + 1 <= next_counterparty_commit_num
\*                                  <= next_counterparty_revoke_num + 2
I1(self) ==
    /\ self.next_counterparty_revoke_num + 1 <= self.next_counterparty_commit_num
    /\ self.next_counterparty_commit_num <= self.next_counterparty_revoke_num + 2

\* C1: after every successful set_next_counterparty_commit_num or
\* set_next_counterparty_revoke_num the state satisfies
\* revoke + 1 <= commit <= revoke + 2, and the only reachable state outside
\* this range is the birth state where both counters are 0.
C1_CommitRevokeRange ==
    /\ (/\ \/ Called("set_next_counterparty_commit_num")
           \/ Called("set_next_counterparty_revoke_num")
        /\ last.res.kind = "Ok")
       => I1(estate)
    /\ ~I1(estate) =>
          /\ estate.next_counterparty_commit_num = 0
          /\ estate.next_counterparty_revoke_num = 0

\* A revocation was accepted that brings the counters to the lower end of
\* the range, after the upper end had been reached.
C1_Witness ==
    /\ Called("set_next_counterparty_revoke_num")
    /\ last.res.kind = "Ok"
    /\ last.pre.next_counterparty_commit_num = last.pre.next_counterparty_revoke_num + 2
    /\ estate.next_counterparty_commit_num = estate.next_counterparty_revoke_num + 1
    /\ estate.next_counterparty_revoke_num >= 2

\* C2: whenever one of the three setters returns an error, every field of
\* the EnforcementState has the value it had before the call.
C2_NoMutationOnError ==
    (/\ \/ Called("set_next_counterparty_commit_num")
        \/ Called("set_next_counterparty_revoke_num")
        \/ Called("set_next_holder_commit_num")
     /\ last.res.kind = "Policy")
    => estate = last.pre

\* A setter failed in a state that has a full window of commitments to lose.
C2_Witness ==
    /\ Called("set_next_counterparty_commit_num")
    /\ last.res.kind = "Policy"
    /\ last.pre.previous_counterparty_commit_info # None
    /\ last.pre.current_holder_commit_info # None
    /\ last.num = last.pre.next_counterparty_commit_num + 1

\* C3: a call changes each of the three counters by 0 or by +1, so none of
\* them ever decreases or skips a number; and
\* set_next_counterparty_commit_num(2, ..) on a fresh state is rejected as
\* an invalid progression.
C3_CountersStepByOne ==
    /\ estate.next_holder_commit_num - last.pre.next_holder_commit_num \in {0, 1}
    /\ estate.next_counterparty_commit_num
          - last.pre.next_counterparty_commit_num \in {0, 1}
    /\ estate.next_counterparty_revoke_num
          - last.pre.next_counterparty_revoke_num \in {0, 1}
    /\ (/\ Called("set_next_counterparty_commit_num")
        /\ last.pre.next_counterparty_commit_num = 0
        /\ last.num = 2)
       => ResIs(last.res, "Policy", <<"invalid progression: {} to {}", 0, 2>>)

\* set_next_counterparty_commit_num(2, ..) was called on a fresh state.
C3_Witness ==
    /\ Called("set_next_counterparty_commit_num")
    /\ last.pre = new(last.pre.initial_holder_value)
    /\ last.num = 2
    /\ last.res.kind = "Policy"

\* C4 as stated: in every state with next_counterparty_commit_num >= 1 the
\* retry with the current number and the current point returns Ok, whatever
\* revocations have been recorded.
C4_RetryAlwaysOk ==
    IsRetry => last.res.kind = "Ok"

\* C4 as amended: the retry returns Ok as long as the commitment before the
\* current one has not been revoked (commit = 1 or commit = revoke + 2);
\* once revoke has reached commit - 1 it is rejected as too small relative
\* to next_counterparty_revoke_num.
C4_RetryOkUntilRevoked ==
    IsRetry =>
        IF RetryInRange(last.pre)
        THEN last.res.kind = "Ok"
        ELSE ResIs(last.res, "Policy",
                   <<"{} too small relative to next_counterparty_revoke_num {}",
                     last.num, last.pre.next_counterparty_revoke_num>>)

\* A retry was accepted after a revocation had been recorded.
C4_Witness ==
    /\ IsRetry
    /\ last.res.kind = "Ok"
    /\ last.pre.next_counterparty_revoke_num >= 1

\* C5: a retry with the recorded point and the recorded info changes no
\* field of the EnforcementState, so that any number of them leaves the
\* state they started from.
C5_RetryIsNoOp ==
    (IsRetry /\ last.info = last.pre.current_counterparty_commit_info)
    => estate = last.pre

\* Such a retry was accepted in a state whose previous point and info
\* differ from the current ones.
C5_Witness ==
    /\ IsRetry
    /\ last.info = last.pre.current_counterparty_commit_info
    /\ last.res.kind = "Ok"
    /\ last.pre.previous_counterparty_point
          \notin {None, last.pre.current_counterparty_point}
    /\ last.pre.previous_counterparty_commit_info
          \notin {None, last.pre.current_counterparty_commit_info}

\* A call with the current number (at least 1) and a point other than the
\* recorded one.
IsRetryWithOtherPoint ==
    /\ Called("set_next_counterparty_commit_num")
    /\ last.pre.next_counterparty_commit_num >= 1
    /\ last.num = last.pre.next_counterparty_commit_num
    /\ last.point # last.pre.current_counterparty_point

\* The call left the number, both points and all commitment infos alone.
CounterpartyWindowUnchanged ==
    /\ estate.next_counterparty_commit_num = last.pre.next_counterparty_commit_num
    /\ estate.current_counterparty_point = last.pre.current_counterparty_point
    /\ estate.previous_counterparty_point = last.pre.previous_counterparty_point
    /\ estate.current_counterparty_commit_info = last.pre.current_counterparty_commit_info
    /\ estate.previous_counterparty_commit_info = last.pre.previous_counterparty_commit_info
    /\ estate.current_holder_commit_info = last.pre.current_holder_commit_info

\* C6 as stated: a call with the current number and a different point fails
\* with 'retry N: point different than prior' and leaves the number, the
\* points and the infos unchanged.
C6_OtherPointIsRetryError ==
    IsRetryWithOtherPoint =>
        /\ ResIs(last.res, "Policy", <<"retry {}: point different than prior", last.num>>)
        /\ CounterpartyWindowUnchanged

\* C6 as amended: such a call fails with a policy error and leaves the
\* number, the points and the infos unchanged; the error is 'retry N: point
\* different than prior' when the number passes the checks against
\* next_counterparty_revoke_num (commit = 1 or commit = revoke + 2), and
\* 'too small relative to next_counterparty_revoke_num' otherwise; with
\* the number 0 of a fresh state the error is 'can't set next to 0'.
C6_OtherPointIsPolicyError ==
    /\ IsRetryWithOtherPoint =>
          /\ CounterpartyWindowUnchanged
          /\ IF RetryInRange(last.pre)
             THEN ResIs(last.res, "Policy",
                        <<"retry {}: point different than prior", last.num>>)
             ELSE ResIs(last.res, "Policy",
                        <<"{} too small relative to next_counterparty_revoke_num {}",
                          last.num, last.pre.next_counterparty_revoke_num>>)
    /\ (/\ Called("set_next_counterparty_commit_num")
        /\ last.pre.next_counterparty_commit_num = 0
        /\ last.num = 0)
       => /\ CounterpartyWindowUnchanged
          /\ ResIs(last.res, "Policy", <<"can't set next to 0">>)

\* The retry error was returned after a revocation, in a state with a full
\* window.
C6_Witness ==
    /\ IsRetryWithOtherPoint
    /\ last.res.kind = "Policy"
    /\ last.res.val[1] = "retry {}: point different than prior"
    /\ last.pre.next_counterparty_revoke_num >= 1
    /\ last.pre.previous_counterparty_commit_info # None

\* C7: an accepted advance to cur + 1 shifts the window by one: the former
\* current point and info become the previous ones, the supplied point and
\* info become the current ones, and the number becomes cur + 1.
C7_AdvanceShiftsWindow ==
    (/\ Called("set_next_counterparty_commit_num")
     /\ last.res.kind = "Ok"
     /\ last.num = last.pre.next_counterparty_commit_num + 1)
    => /\ estate.previous_counterparty_point = last.pre.current_counterparty_point
       /\ estate.previous_counterparty_commit_info
             = last.pre.current_counterparty_commit_info
       /\ estate.current_counterparty_point = last.point
       /\ estate.current_counterparty_commit_info = last.info
       /\ estate.next_counterparty_commit_num
             = last.pre.next_counterparty_commit_num + 1

\* An advance was accepted whose point and info differ from the current
\* ones, in a state whose previous info had been cleared by a revocation.
C7_Witness ==
    /\ Called("set_next_counterparty_commit_num")
    /\ last.res.kind = "Ok"
    /\ last.num = last.pre.next_counterparty_commit_num + 1
    /\ last.pre.next_counterparty_revoke_num >= 1
    /\ last.pre.previous_counterparty_commit_info = None
    /\ last.point # last.pre.current_counterparty_point
    /\ last.info # last.pre.current_counterparty_commit_info

\* C8: after a successful set_next_counterparty_revoke_num(n) with
\* n + 1 = commit, previous_counterparty_commit_info is None, and the
\* previous point, the current point and the current info are as before.
C8_RevokeClearsInfoKeepsPoint ==
    (/\ Called("set_next_counterparty_revoke_num")
     /\ last.res.kind = "Ok"
     /\ last.num + 1 = last.pre.next_counterparty_commit_num)
    => /\ estate.previous_counterparty_commit_info = None
       /\ estate.previous_counterparty_point = last.pre.previous_counterparty_point
       /\ estate.current_counterparty_point = last.pre.current_counterparty_point
       /\ estate.current_counterparty_commit_info
             = last.pre.current_counterparty_commit_info

\* Such a revocation was accepted in a state that had a previous point and
\* a previous info.
C8_Witness ==
    /\ Called("set_next_counterparty_revoke_num")
    /\ last.res.kind = "Ok"
    /\ last.num + 1 = last.pre.next_counterparty_commit_num
    /\ last.pre.previous_counterparty_commit_info # None
    /\ last.pre.previous_counterparty_point # None
    /\ estate.previous_counterparty_point # None

\* C9: the current info is the info of commitment commit - 1 and the
\* previous info, when set, the info of commitment commit - 2; in every
\* reachable state neither of them belongs to a commitment whose number is
\* below next_counterparty_revoke_num.
C9_RevokedInfoNotKept ==
    LET commit == estate.next_counterparty_commit_num
        revoke == estate.next_counterparty_revoke_num
    IN  /\ estate.current_counterparty_commit_info # None =>
              /\ commit \in DOMAIN supplied
              /\ estate.current_counterparty_commit_info = supplied[commit].info
              /\ commit - 1 >= revoke
        /\ estate.previous_counterparty_commit_info # None =>
              /\ commit - 1 \in DOMAIN supplied
              /\ estate.previous_counterparty_commit_info = supplied[commit - 1].info
              /\ commit - 2 >= revoke

\* A revocation was accepted that revoked the commitment whose info was
\* stored as the previous one, after an earlier revocation and advance.
C9_Witness ==
    /\ Called("set_next_counterparty_revoke_num")
    /\ last.res.kind = "Ok"
    /\ last.num = last.pre.next_counterparty_revoke_num + 1
    /\ last.pre.previous_counterparty_commit_info # None
    /\ estate.previous_counterparty_commit_info = None
    /\ estate.next_counterparty_revoke_num >= 2

\* C10: get_previous_counterparty_point(n) returns the point supplied with
\* the accepted advance to commit number n + 1 when n is commit - 1 or
\* commit - 2, and fails with the 'out of range' policy error for every
\* other n.
C10_PreviousPointOrOutOfRange ==
    Called("get_previous_counterparty_point") =>
        LET n == last.num
            commit == estate.next_counterparty_commit_num
        IN  IF n >= 0 /\ (n + 1 = commit \/ n + 2 = commit)
            THEN /\ n + 1 \in DOMAIN supplied
                 /\ ResIs(last.res, "Ok", supplied[n + 1].point)
            ELSE ResIs(last.res, "Policy", <<"{} out of range, next is {}", n, commit>>)

\* C11: set_next_counterparty_revoke_num(num) returns Ok exactly when
\* num != 0, commit - 2 <= num <= commit - 1 and num is cur or cur + 1, and
\* then sets next_counterparty_revoke_num to num; otherwise it returns a
\* policy error.
C11_RevokeOkExactlyWhen ==
    Called("set_next_counterparty_revoke_num") =>
        LET num == last.num
            commit == last.pre.next_counterparty_commit_num
            cur == last.pre.next_counterparty_revoke_num
        IN  IF /\ num > 0
               /\ commit - 2 <= num
               /\ num <= commit - 1
               /\ (num = cur \/ num = cur + 1)
            THEN /\ last.res.kind = "Ok"
                 /\ estate.next_counterparty_revoke_num = num
            ELSE last.res.kind = "Policy"

\* C12: next_counterparty_commit_num >= 1 implies that the current point
\* and the current counterparty info are both set.
C12_CurrentPointAndInfoSet ==
    estate.next_counterparty_commit_num >= 1 =>
        /\ estate.current_counterparty_point # None
        /\ estate.current_counterparty_commit_info # None

\* A second advance was accepted after a revocation.
C12_Witness ==
    /\ Called("set_next_counterparty_commit_num")
    /\ last.res.kind = "Ok"
    /\ estate.next_counterparty_commit_num >= 3
    /\ estate.next_counterparty_revoke_num >= 1
    /\ estate.current_counterparty_commit_info # None

\* C13: if next_counterparty_commit_num >= 2 and
\* next_counterparty_revoke_num < next_counterparty_commit_num - 1 then the
\* previous point is set.
C13_PreviousPointSet ==
    (/\ estate.next_counterparty_commit_num >= 2
     /\ estate.next_counterparty_revoke_num < estate.next_counterparty_commit_num - 1)
    => estate.previous_counterparty_point # None

\* An advance was accepted after a revocation, and the commitment before the
\* current one is not revoked.
C13_Witness ==
    /\ Called("set_next_counterparty_commit_num")
    /\ last.res.kind = "Ok"
    /\ estate.next_counterparty_commit_num >= 3
    /\ estate.next_counterparty_revoke_num >= 1
    /\ estate.next_counterparty_revoke_num < estate.next_counterparty_commit_num - 1

\* C14: once mutual_close_signed is true, no call of
\* set_next_holder_commit_num or set_next_counterparty_commit_num with
\* num = current + 1 succeeds.
C14_NoAdvanceAfterMutualClose ==
    /\ (/\ Called("set_next_holder_commit_num")
        /\ last.pre.mutual_close_signed
        /\ last.num = last.pre.next_holder_commit_num + 1)
       => last.res.kind # "Ok"
    /\ (/\ Called("set_next_counterparty_commit_num")
        /\ last.pre.mutual_close_signed
        /\ last.num = last.pre.next_counterparty_commit_num + 1)
       => last.res.kind # "Ok"

\* C15: set_next_holder_commit_num(num, info) returns Ok exactly when num is
\* cur or cur + 1, and then stores num and replaces the holder info by
\* info, a retry included; otherwise it fails with the 'invalid progression'
\* policy error.
C15_HolderOkExactlyWhen ==
    Called("set_next_holder_commit_num") =>
        LET cur == last.pre.next_holder_commit_num
        IN  IF last.num = cur \/ last.num = cur + 1
            THEN /\ last.res.kind = "Ok"
                 /\ estate.next_holder_commit_num = last.num
                 /\ estate.current_holder_commit_info = last.info
            ELSE /\ ResIs(last.res, "Policy",
                          <<"invalid progression: {} to {}", cur, last.num>>)
                 /\ estate = last.pre

\* A retry was accepted that carried another info than the recorded one.
C15_Witness ==
    /\ Called("set_next_holder_commit_num")
    /\ last.res.kind = "Ok"
    /\ last.num = last.pre.next_holder_commit_num
    /\ last.num >= 1
    /\ last.pre.current_holder_commit_info \notin {None, last.info}
    /\ estate.current_holder_commit_info = last.info

\* |a - b|
AbsDiff(a, b) == IF a > b THEN a - b ELSE b - a

\* min(a, b)
Min(a, b) == IF a < b THEN a ELSE b

\* max(a, b)
Max(a, b) == IF a > b THEN a ELSE b

\* Some(min(h, c)) if both commitments are given and |h - c| <= eps, else
\* None.
MinimumWithin(hinfo, cinfo, h, c, eps) ==
    IF hinfo # None /\ cinfo # None /\ AbsDiff(h, c) <= eps
    THEN ResIs(last.res, "Some", Min(h, c))
    ELSE last.res.kind = "None"

\* C16: minimum_to_holder_value(eps) is Some(min(h, c)) iff both current
\* commitments are set and |h - c| <= eps, with h the holder commitment's
\* to_broadcaster_value_sat and c the counterparty commitment's
\* to_countersigner_value_sat, and None otherwise;
\* minimum_to_counterparty_value is the same with h the holder commitment's
\* to_countersigner_value_sat and c the counterparty commitment's
\* to_broadcaster_value_sat.
C16_MinimumValues ==
    LET hinfo == last.pre.current_holder_commit_info
        cinfo == last.pre.current_counterparty_commit_info
    IN  /\ Called("minimum_to_holder_value") =>
              IF hinfo = None \/ cinfo = None
              THEN last.res.kind = "None"
              ELSE MinimumWithin(hinfo, cinfo, hinfo.to_broadcaster_value_sat,
                                 cinfo.to_countersigner_value_sat, last.num)
        /\ Called("minimum_to_counterparty_value") =>
              IF hinfo = None \/ cinfo = None
              THEN last.res.kind = "None"
              ELSE MinimumWithin(hinfo, cinfo, hinfo.to_countersigner_value_sat,
                                 cinfo.to_broadcaster_value_sat, last.num)

\* minimum_to_counterparty_value returned the counterparty's smaller value
\* for two commitments that differ by exactly epsilon, where the holder-side
\* fields would have given None.
C16_Witness ==
    /\ Called("minimum_to_counterparty_value")
    /\ last.res.kind = "Some"
    /\ last.num >= 1
    /\ last.pre.current_holder_commit_info.to_countersigner_value_sat
          = last.pre.current_counterparty_commit_info.to_broadcaster_value_sat + last.num
    /\ AbsDiff(last.pre.current_holder_commit_info.to_broadcaster_value_sat,
               last.pre.current_counterparty_commit_info.to_countersigner_value_sat)
          > last.num

\* The sum of the values of the HTLCs of the list that belong to payment k.
RECURSIVE SumOfPayment(_, _)
SumOfPayment(htlcs, k) ==
    IF htlcs = << >> THEN 0
    ELSE (IF Head(htlcs).payment_hash = k THEN Head(htlcs).value_sat ELSE 0)
             + SumOfPayment(Tail(htlcs), k)

\* The payments with an HTLC in the list.
PaymentsOf(htlcs) == {htlcs[i].payment_hash : i \in 1 .. Len(htlcs)}

\* The HTLC list of one side of an optional commitment (empty if there is no
\* commitment).
HtlcsOf(tx, offered) ==
    IF tx = None THEN << >>
    ELSE IF offered THEN tx.offered_htlcs ELSE tx.received_htlcs

\* The commitment in force on the holder's side in the recorded call: the
\* new one if supplied, else the current one.
HolderTx == IF last.info[1] # None THEN last.info[1]
            ELSE last.pre.current_holder_commit_info

\* Likewise on the counterparty's side.
CounterpartyTx == IF last.info[2] # None THEN last.info[2]
                  ELSE last.pre.current_counterparty_commit_info

\* The reorderings of a list.
Reorderings(list) ==
    {[i \in 1 .. Len(list) |-> list[p[i]]] : p \in Permutations(1 .. Len(list))}

\* The commitments that differ from tx (if any) in the order of the HTLCs.
ReorderedTx(tx) ==
    IF tx = None THEN {None}
    ELSE {[tx EXCEPT !.offered_htlcs = o, !.received_htlcs = r] :
             o \in Reorderings(tx.offered_htlcs), r \in Reorderings(tx.received_htlcs)}

\* C17: payments_summary has an entry exactly for the payments among the
\* holder commitment's offered HTLCs or the counterparty commitment's
\* received HTLCs (a supplied new commitment replacing the current one), the
\* entry is the larger of the two per-side sums, and the result is the same
\* for every reordering of the HTLCs inside the commitments.
C17_PaymentsSummaryIsMaxOfSums ==
    Called("payments_summary") =>
        LET ho == HtlcsOf(HolderTx, TRUE)
            cr == HtlcsOf(CounterpartyTx, FALSE)
            m == last.res.val
        IN  /\ DOMAIN m = PaymentsOf(ho) \cup PaymentsOf(cr)
            /\ \A k \in DOMAIN m : m[k] = Max(SumOfPayment(ho, k), SumOfPayment(cr, k))
            /\ \A h \in ReorderedTx(HolderTx), c \in ReorderedTx(CounterpartyTx) :
                  payments_summary(last.pre, h, c) = m

\* A summary where a payment has two HTLCs in the new holder commitment, so
\* their sum exceeds the counterparty's single HTLC, and another payment is
\* known to the counterparty only.
C17_Witness ==
    /\ Called("payments_summary")
    /\ last.info[1] # None
    /\ last.info[2] = None
    /\ last.pre.current_holder_commit_info # None
    /\ last.pre.current_counterparty_commit_info # None
    /\ \E k \in DOMAIN last.res.val :
          /\ last.res.val[k] = SumOfPayment(last.info[1].offered_htlcs, k)
          /\ Len(last.info[1].offered_htlcs) = 2
          /\ last.res.val[k] > last.info[1].offered_htlcs[1].value_sat
          /\ last.res.val[k] > SumOfPayment(
                 last.pre.current_counterparty_commit_info.received_htlcs, k)
          /\ k \in PaymentsOf(last.pre.current_counterparty_commit_info.received_htlcs)

\* C18: incoming_payments_summary has an entry exactly for the payments
\* present both among the holder commitment's received HTLCs and among the
\* counterparty commitment's offered HTLCs, the entry is the smaller of the
\* two per-side sums, and the result is empty when a side has no commitment.
C18_IncomingIsMinOverBoth ==
    Called("incoming_payments_summary") =>
        LET hr == HtlcsOf(HolderTx, FALSE)
            co == HtlcsOf(CounterpartyTx, TRUE)
            m == last.res.val
        IN  /\ DOMAIN m = PaymentsOf(hr) \cap PaymentsOf(co)
            /\ \A k \in DOMAIN m : m[k] = Min(SumOfPayment(hr, k), SumOfPayment(co, k))
            /\ (HolderTx = None \/ CounterpartyTx = None) => DOMAIN m = {}

\* An incoming summary that leaves out a payment only the counterparty's
\* commitment has, and keeps a payment of both at the counterparty's sum,
\* which is smaller than the holder's.
C18_Witness ==
    /\ Called("incoming_payments_summary")
    /\ HolderTx # None
    /\ CounterpartyTx # None
    /\ \E k \in PaymentsOf(CounterpartyTx.offered_htlcs) : k \notin DOMAIN last.res.val
    /\ \E k \in DOMAIN last.res.val :
          /\ last.res.val[k] < SumOfPayment(HolderTx.received_htlcs, k)
          /\ last.res.val[k] = SumOfPayment(CounterpartyTx.offered_htlcs, k)

\* The holder's balance in each of the given commitments that exist, under
\* the arguments of the query asked.
ViewsOf(holder_tx, counterparty_tx) ==
    {claimable_balance(tx, request.preimage_map, request.channel_setup.is_outbound,
                       request.channel_setup.channel_value_sat) :
        tx \in {holder_tx, counterparty_tx} \ {None}}

\* The least element of a non-empty set of numbers.
Least(S) == CHOOSE m \in S : \A x \in S : m <= x

\* C19: claimable_balances with exactly one new commitment returns
\* (current, new): current is the least of the holder's balances in the
\* current commitments that exist, and initial_holder_value when there is
\* none; new is the same with the new commitment in place of the current
\* one on its side; the EnforcementState is left as it was.
C19_BalancesAreMinOfViews ==
    (/\ Called("claimable_balances")
     /\ (last.info[1] = None) # (last.info[2] = None)) =>
        LET cur == ViewsOf(last.pre.current_holder_commit_info,
                           last.pre.current_counterparty_commit_info)
            new_views == ViewsOf(HolderTx, CounterpartyTx)
        IN  /\ last.res.kind = "BalanceDelta"
            /\ last.res.val[1] = IF cur = {} THEN last.pre.initial_holder_value
                                 ELSE Least(cur)
            /\ last.res.val[2] = Least(new_views)
            /\ estate = last.pre

\* The first counterparty commitment of a channel that has a holder
\* commitment: the current balance is the holder's view alone, and the new
\* balance is the counterparty's view, which is smaller.
C19_Witness ==
    /\ Called("claimable_balances")
    /\ last.info[1] = None
    /\ last.info[2] # None
    /\ last.pre.current_holder_commit_info # None
    /\ last.pre.current_counterparty_commit_info = None
    /\ last.res.kind = "BalanceDelta"
    /\ last.res.val[2] < last.res.val[1]
    /\ last.res.val[1] # last.pre.initial_holder_value

\* The threads inside a channel operation.
InChannel == {t \in Threads : threads[t].pc \in {"guard", "read", "written"}}

\* The number of operations the threads completed.
RECURSIVE CompletedBy(_)
CompletedBy(ts) ==
    IF ts = {} THEN 0
    ELSE LET t == CHOOSE x \in ts : TRUE
         IN  threads[t].completed + CompletedBy(ts \ {t})

\* C20: operations on a channel never overlap. A thread is inside a channel
\* operation only while it holds the guard of Node::channels(), at most one
\* thread is inside at a time, the state a thread read under the guard is
\* still the channel's state when it writes, and the operations completed
\* add up one after another (none is lost).
C20_ChannelOperationsNeverOverlap ==
    /\ Cardinality(InChannel) <= 1
    /\ InChannel \subseteq mutex.guards
    /\ \A t \in Threads :
          /\ threads[t].pc = "read" =>
                threads[t].seen = estate.next_holder_commit_num
          /\ threads[t].pc = "written" =>
                /\ last.pre.next_holder_commit_num = threads[t].seen
                /\ estate.next_holder_commit_num = threads[t].seen + 1
    /\ estate.next_holder_commit_num = CompletedBy(Threads)

\* Both threads have completed an operation, and one of them has just
\* written a third one from the state the other one left.
C20_Witness ==
    /\ \A t \in Threads : threads[t].completed >= 1
    /\ \E t \in Threads :
          /\ threads[t].pc = "written"
          /\ threads[t].seen = 2
    /\ estate.next_holder_commit_num = 3

\* C21: the lock is released on every exit of an operation (return, error,
\* abort), so under fair scheduling every request that asks for the lock
\* eventually holds it.
C21_EveryRequestGetsTheLock ==
    \A t \in Threads : (threads[t].pc = "calling") ~> (threads[t].pc = "guard")

\* The output the sweep asked for pays to, once it has a single output.
SweepDestination == request.tx.output[1].script_pubkey

\* The sweep asked for has the format of a delayed sweep.
SweepWellFormed ==
    /\ Len(request.tx.input) = 1
    /\ Len(request.tx.output) = 1
    /\ request.tx.version = 2
    /\ request.tx.lock_time = 0
    /\ request.tx.input[1].sequence = ContestDelay
    /\ request.input = 0

\* The destination is the wallet's script at the supplied key_path, or is
\* in the allowlist.
SweepDestinationAccepted ==
    \/ \E i \in {19, 21} : request.key_path = <<i>> /\ SweepDestination = wallet_script(i)
    \/ SweepDestination \in allowlist

\* The fee of the sweep asked for is in the range.
SweepFeeAccepted ==
    /\ request.amount_sat >= request.tx.output[1].value
    /\ request.amount_sat - request.tx.output[1].value >= 100
    /\ request.amount_sat - request.tx.output[1].value <= 46000

\* C22: a delayed sweep is signed only if its output pays to the wallet's
\* script at the supplied key_path or to an allowlisted script; a well-formed
\* sweep to any other destination (a wallet script with the key_path of
\* another script included) gets the policy failure 'destination is not in
\* wallet or allowlist', and no signature.
C22_SweepDestinationInWalletOrAllowlist ==
    Called("sign_delayed_sweep") =>
        /\ last.res.kind = "Ok" => SweepDestinationAccepted
        /\ (SweepWellFormed /\ ~SweepDestinationAccepted) =>
              ResIs(last.res, "Policy",
                    <<"validate_delayed_sweep: destination is not in wallet or allowlist">>)

\* The sweep of sign_delayed_sweep_with_wrong_wallet_path: the wallet's
\* script at 19 presented with path 21, rejected.
C22_Witness ==
    /\ Called("sign_delayed_sweep")
    /\ SweepWellFormed
    /\ SweepFeeAccepted
    /\ SweepDestination = wallet_script(19)
    /\ request.key_path = <<21>>
    /\ allowlist = {}
    /\ last.res.kind = "Policy"

\* The step is an add_allowlist that is given the destination of the sweep
\* asked for, which sign_delayed_sweep rejects for its destination before it.
AddsRejectedDestination ==
    /\ last'.op = "add_allowlist"
    /\ SweepDestination \in last'.info
    /\ ResIs(sign_delayed_sweep(allowlist, ContestDelay, request.tx, request.input,
                                request.amount_sat, request.key_path), "Policy",
             <<"validate_delayed_sweep: destination is not in wallet or allowlist">>)

\* C23 as stated: an allowlist addition takes effect for the next
\* validation. When add_allowlist returns having been given the destination
\* of a sweep that was rejected as 'destination is not in wallet or
\* allowlist', the same sweep is accepted. It fails for a sweep whose fee is
\* out of range: the destination check precedes the fee check, so the sweep
\* is rejected for its destination before the addition and for its fee
\* after it.
C23_AllowlistAdditionTakesEffect ==
    [][AddsRejectedDestination
       => sign_delayed_sweep(allowlist', ContestDelay, request'.tx, request'.input,
                             request'.amount_sat, request'.key_path).kind = "Ok"
      ]_<<last.op, allowlist, channel, serial>>

\* C23, amended: an allowlist addition takes effect for the next
\* validation. When add_allowlist returns having been given the destination
\* of a sweep that was rejected as 'destination is not in wallet or
\* allowlist', the same sweep is no longer rejected for its destination: it
\* is signed when its fee is in the range, and gets the fee's policy error
\* ('fee underflow', 'fee below minimum', 'fee above maximum') otherwise.
C23_AllowlistAdditionLiftsDestinationCheck ==
    [][AddsRejectedDestination
       => LET after == sign_delayed_sweep(allowlist', ContestDelay, request'.tx,
                                          request'.input, request'.amount_sat,
                                          request'.key_path)
              amount == request.amount_sat
              value == request.tx.output[1].value
          IN  /\ SweepFeeAccepted =>
                    /\ after.kind = "Ok"
                    /\ after.val.signature_of = request.tx
              /\ value > amount =>
                    ResIs(after, "Policy",
                          <<"delayed sweep fee underflow: {} - {}", amount, value>>)
              /\ (value <= amount /\ amount - value < 100) =>
                    ResIs(after, "Policy",
                          <<"validate_fee: validate_delayed_sweep: fee below minimum: {} < {}",
                            amount - value, 100>>)
              /\ (value <= amount /\ amount - value > 46000) =>
                    ResIs(after, "Policy",
                          <<"validate_fee: validate_delayed_sweep: fee above maximum: {} > {}",
                            amount - value, 46000>>)
      ]_<<last.op, allowlist, channel, serial>>

\* The sweep of sign_delayed_to_local_allowlist_p2wpkh_success: signed for a
\* destination outside the wallet, after the allowlist addition.
C23_Witness ==
    /\ Called("sign_delayed_sweep")
    /\ SweepDestination = nonwallet_script(3)
    /\ allowlist = {nonwallet_script(3)}
    /\ last.res.kind = "Ok"

\* C24: a sweep that does not have exactly one input and one output,
\* version 2, lock_time 0, the contest delay as input sequence and signing
\* input index 0 gets a transaction-format error and no signature; a sweep
\* that has all of these, an accepted destination and an accepted fee is
\* signed.
C24_SweepFormat ==
    Called("sign_delayed_sweep") =>
        /\ ~SweepWellFormed => last.res.kind = "TransactionFormat"
        /\ (SweepWellFormed /\ SweepDestinationAccepted /\ SweepFeeAccepted) =>
              /\ last.res.kind = "Ok"
              /\ last.res.val.signature_of = request.tx

\* The sweep of sign_delayed_sweep_with_bad_locktime: only the lock_time is
\* wrong.
C24_Witness ==
    /\ Called("sign_delayed_sweep")
    /\ request.tx.lock_time = 1000000
    /\ request.tx.version = 2
    /\ Len(request.tx.input) = 1
    /\ Len(request.tx.output) = 1
    /\ request.tx.input[1].sequence = ContestDelay
    /\ request.input = 0
    /\ SweepDestinationAccepted
    /\ SweepFeeAccepted
    /\ ResIs(last.res, "TransactionFormat",
             <<"validate_delayed_sweep: bad delayed sweep locktime: {} > {}", 1000000, 0>>)

\* C25: the fee of a well-formed sweep to an accepted destination is
\* amount_sat minus the output value: an output value above amount_sat gets
\* the policy error 'fee underflow', a fee below 100 or above 46000 is
\* rejected by validate_fee, and a fee in the range is accepted.
C25_SweepFee ==
    (Called("sign_delayed_sweep") /\ SweepWellFormed /\ SweepDestinationAccepted) =>
        LET amount == request.amount_sat
            value == request.tx.output[1].value
        IN  /\ value > amount =>
                  ResIs(last.res, "Policy",
                        <<"delayed sweep fee underflow: {} - {}", amount, value>>)
            /\ (value <= amount /\ amount - value < 100) =>
                  ResIs(last.res, "Policy",
                        <<"validate_fee: validate_delayed_sweep: fee below minimum: {} < {}",
                          amount - value, 100>>)
            /\ (value <= amount /\ amount - value > 46000) =>
                  ResIs(last.res, "Policy",
                        <<"validate_fee: validate_delayed_sweep: fee above maximum: {} > {}",
                          amount - value, 46000>>)
            /\ (value <= amount /\ amount - value >= 100 /\ amount - value <= 46000) =>
                  last.res.kind = "Ok"

\* The sweep of sign_delayed_sweep_with_fee_underflow: 1879997 - 1978997.
C25_Witness ==
    /\ Called("sign_delayed_sweep")
    /\ SweepWellFormed
    /\ SweepDestinationAccepted
    /\ request.amount_sat = 1879997
    /\ request.tx.output[1].value = 1978997
    /\ ResIs(last.res, "Policy",
             <<"delayed sweep fee underflow: {} - {}", 1879997, 1978997>>)

\* C26: once a channel is ready, the counterparty's basepoints, its
\* to_self_delay, the shutdown script and the funding outpoint keep their
\* values under every later operation, a repeated ready, accept_remote_points
\* or accept_remote_config included.
C26_SetupImmutableAfterReady ==
    [][(is_ready(channel) /\ channel.remote_pubkeys # None) => channel' = channel]_channel

\* C27: a request whose handling fails is fatal only for that request: the
\* signer has not stopped, the error is what it writes back, and it reads the
\* next request.
C27_FailedRequestIsNotFatal ==
    serial.result.kind \notin {"None", "Ok"} =>
        /\ serial.panic # [msg |-> "handle"]
        /\ serial.pc = "read_header" => serial.reply = serial.result

\* The first row of the decision table of set_next_counterparty_commit_num
\* whose guard holds for num (and point) in the state pre. The numbers at the
\* top of the u64 range are written as negative numbers and are above every
\* rev + 2 a state can hold.
DecisionTableRow(pre, num, point) ==
    LET cur == pre.next_counterparty_commit_num
        rev == pre.next_counterparty_revoke_num
    IN  IF num = 0 THEN "reject zero"
        ELSE IF num > 0 /\ num < rev + (IF num = 1 THEN 1 ELSE 2) THEN "too small"
        ELSE IF num < 0 \/ num > rev + 2 THEN "too large"
        ELSE IF num = cur /\ point # pre.current_counterparty_point THEN "retry-different-point"
        ELSE IF num = cur THEN "retry"
        ELSE IF num = cur + 1 THEN "advance"
        ELSE "invalid progression"

\* C28: the outcome of set_next_counterparty_commit_num(num, point, info) is
\* that of the first row of the decision table whose guard holds: num == 0,
\* then num < revoke + (1 if num == 1 else 2), then num > revoke + 2, then
\* the retry with another point, the retry, the advance, and otherwise
\* 'invalid progression'.
C28_DecisionTable ==
    Called("set_next_counterparty_commit_num") =>
        LET pre == last.pre
            num == last.num
            cur == pre.next_counterparty_commit_num
            rev == pre.next_counterparty_revoke_num
            row == DecisionTableRow(pre, num, last.point)
        IN  /\ row = "reject zero" =>
                  ResIs(last.res, "Policy", <<"can't set next to 0">>)
            /\ row = "too small" =>
                  ResIs(last.res, "Policy",
                        <<"{} too small relative to next_counterparty_revoke_num {}", num, rev>>)
            /\ row = "too large" =>
                  ResIs(last.res, "Policy",
                        <<"{} too large relative to next_counterparty_revoke_num {}", num, rev>>)
            /\ row = "retry-different-point" =>
                  ResIs(last.res, "Policy", <<"retry {}: point different than prior", num>>)
            /\ row = "invalid progression" =>
                  ResIs(last.res, "Policy", <<"invalid progression: {} to {}", cur, num>>)
            /\ row = "retry" => last.res = OkUnit /\ estate = pre
            /\ row = "advance" =>
                  /\ last.res = OkUnit
                  /\ estate = [pre EXCEPT
                        !.previous_counterparty_point = pre.current_counterparty_point,
                        !.previous_counterparty_commit_info = pre.current_counterparty_commit_info,
                        !.current_counterparty_point = last.point,
                        !.current_counterparty_commit_info = last.info,
                        !.next_counterparty_commit_num = num]
            /\ last.res.kind # "Ok" => estate = pre

\* With commit = 1 and revoke = 0, num = 3 was reported as too large (and
\* not as an invalid progression).
C28_Witness ==
    /\ Called("set_next_counterparty_commit_num")
    /\ last.pre.next_counterparty_commit_num = 1
    /\ last.pre.next_counterparty_revoke_num = 0
    /\ last.num = 3
    /\ ResIs(last.res, "Policy",
             <<"{} too large relative to next_counterparty_revoke_num {}", 3, 0>>)

\* A retry that supplies the recorded point and an info other than the
\* recorded one.
IsRetryWithOtherInfo ==
    /\ IsRetry
    /\ last.info # last.pre.current_counterparty_commit_info

\* C29: a retry with the recorded point and a different commitment info is
\* accepted wherever a retry is (the number passes the checks against
\* next_counterparty_revoke_num), and it mutates nothing: the recorded
\* current_counterparty_commit_info, and the rest of the state, keep their
\* values.
C29_RetryWithOtherInfo ==
    IsRetryWithOtherInfo =>
        /\ RetryInRange(last.pre) => last.res = OkUnit
        /\ estate = last.pre
        /\ estate.current_counterparty_commit_info # last.info

\* Such a retry was accepted in a state with a full window.
C29_Witness ==
    /\ IsRetryWithOtherInfo
    /\ last.res = OkUnit
    /\ last.pre.next_counterparty_commit_num >= 2
    /\ last.pre.previous_counterparty_commit_info # None
    /\ estate.current_counterparty_commit_info = last.pre.current_counterparty_commit_info

\* set_next_counterparty_commit_num(commit + 1, ..) is accepted in the state
\* self, whatever point and info it supplies.
CommitAdvanceAccepted(self) ==
    \A point \in Points, info \in Infos :
        set_next_counterparty_commit_num(self, self.next_counterparty_commit_num + 1,
                                         point, info).res.kind = "Ok"

\* It is rejected, whatever point and info it supplies.
CommitAdvanceRejected(self) ==
    \A point \in Points, info \in Infos :
        set_next_counterparty_commit_num(self, self.next_counterparty_commit_num + 1,
                                         point, info).res.kind = "Policy"

\* set_next_counterparty_revoke_num(revoke + 1) is accepted in the state self.
RevokeAdvanceAccepted(self) ==
    set_next_counterparty_revoke_num(self, self.next_counterparty_revoke_num + 1).res.kind = "Ok"

\* The call recorded in `last` is an accepted advance of the counterparty
\* commitment number.
IsCommitAdvance ==
    /\ Called("set_next_counterparty_commit_num")
    /\ last.res.kind = "Ok"
    /\ last.num = last.pre.next_counterparty_commit_num + 1

\* The call recorded in `last` is an accepted advance of the revocation
\* number.
IsRevokeAdvance ==
    /\ Called("set_next_counterparty_revoke_num")
    /\ last.res.kind = "Ok"
    /\ last.num = last.pre.next_counterparty_revoke_num + 1

\* C30: in every reachable state exactly one of the two advances is
\* accepted, set_next_counterparty_commit_num(commit + 1, ..) or
\* set_next_counterparty_revoke_num(revoke + 1); after the first two
\* commitments the advances alternate: a commit advance is accepted only
\* after a revoke advance (commit = revoke + 1) and leaves a state where only
\* the revoke advance is accepted, and a revoke advance is accepted only
\* after a commit advance (commit = revoke + 2) and leaves a state where only
\* the commit advance is accepted.
C30_ExactlyOneAdvance ==
    /\ CommitAdvanceAccepted(estate) # RevokeAdvanceAccepted(estate)
    /\ CommitAdvanceAccepted(estate) \/ CommitAdvanceRejected(estate)
    /\ (IsCommitAdvance /\ last.pre.next_counterparty_commit_num >= 2) =>
          /\ last.pre.next_counterparty_commit_num = last.pre.next_counterparty_revoke_num + 1
          /\ RevokeAdvanceAccepted(estate)
          /\ CommitAdvanceRejected(estate)
    /\ IsRevokeAdvance =>
          /\ last.pre.next_counterparty_commit_num = last.pre.next_counterparty_revoke_num + 2
          /\ CommitAdvanceAccepted(estate)
          /\ ~RevokeAdvanceAccepted(estate)

\* A commit advance was accepted after a revoke advance, and only the revoke
\* advance is accepted now.
C30_Witness ==
    /\ IsCommitAdvance
    /\ last.pre.next_counterparty_commit_num = 2
    /\ last.pre.next_counterparty_revoke_num = 1
    /\ RevokeAdvanceAccepted(estate)
    /\ CommitAdvanceRejected(estate)

\* C31: in every state reachable through the setters,
\* previous_counterparty_commit_info is set if and only if
\* next_counterparty_commit_num = next_counterparty_revoke_num + 2: exactly
\* while the previous counterparty commitment exists and is not revoked.
C31_PreviousInfoSetIffUnrevoked ==
    (estate.previous_counterparty_commit_info # None)
        <=> (estate.next_counterparty_commit_num = estate.next_counterparty_revoke_num + 2)

\* A revocation was retried after the next commitment: the previous info of
\* the unrevoked commitment is still there.
C31_Witness ==
    /\ Called("set_next_counterparty_revoke_num")
    /\ last.res = OkUnit
    /\ last.num = last.pre.next_counterparty_revoke_num
    /\ estate.next_counterparty_commit_num = 3
    /\ estate.next_counterparty_revoke_num = 1
    /\ estate.previous_counterparty_commit_info # None

\* C32: the assertions about the counterparty point hold in every reachable
\* state: set_next_counterparty_commit_num never panics in its retry branch,
\* and get_previous_counterparty_point(n), for every n, returns a point or a
\* policy error, never a panic.
C32_PointAssertionsHold ==
    /\ Called("set_next_counterparty_commit_num") => last.res.kind \in {"Ok", "Policy"}
    /\ Called("get_previous_counterparty_point") => last.res.kind \in {"Ok", "Policy"}

\* C33, for the commitment numbers n that do not wrap (n + 2 within u64):
\* get_previous_counterparty_commit_info(n) returns the info supplied with
\* the accepted advance to commit number n + 1 when n is commit - 1 or
\* commit - 2, and the 'out of range' policy error for every other n; it
\* does not panic, also after the previous commitment has been revoked.
C33_PreviousInfoOrOutOfRange ==
    (Called("get_previous_counterparty_commit_info") /\ last.num >= 0) =>
        LET n == last.num
            commit == estate.next_counterparty_commit_num
        IN  IF n + 1 = commit \/ n + 2 = commit
            THEN /\ n + 1 \in DOMAIN supplied
                 /\ ResIs(last.res, "Ok", supplied[n + 1].info)
            ELSE ResIs(last.res, "Policy", <<"{} out of range, next is {}", n, commit>>)

\* C34: get_current_holder_commitment_info(n) returns the info recorded by
\* the last accepted set_next_holder_commit_num when n + 1 is
\* next_holder_commit_num and a policy error otherwise; its unwrap never
\* fails.
C34_CurrentHolderInfoOrPolicyError ==
    /\ Called("get_current_holder_commitment_info") => last.res.kind \in {"Ok", "Policy"}
    /\ (Called("set_next_holder_commit_num") /\ last.res.kind = "Ok") =>
          \A n \in NumArgs :
              IF n >= 0 /\ n + 1 = estate.next_holder_commit_num
              THEN ResIs(get_current_holder_commitment_info(estate, n), "Ok", last.info)
              ELSE get_current_holder_commitment_info(estate, n).kind = "Policy"

\* The fields of the counterparty's commitments.
CounterpartyCommitFields ==
    { "next_counterparty_commit_num", "current_counterparty_point",
      "previous_counterparty_point", "current_counterparty_commit_info",
      "previous_counterparty_commit_info" }

\* The call recorded in `last` changed no field outside fields.
TouchedOnly(fields) ==
    \A f \in (DOMAIN estate) \ fields : estate[f] = last.pre[f]

\* C35: each setter touches only its own fields, whether it succeeds or
\* fails: set_next_holder_commit_num only next_holder_commit_num and
\* current_holder_commit_info, set_next_counterparty_commit_num only
\* next_counterparty_commit_num and the counterparty points and infos,
\* set_next_counterparty_revoke_num only next_counterparty_revoke_num and
\* previous_counterparty_commit_info; no setter and no query changes
\* mutual_close_signed or initial_holder_value.
C35_SettersTouchOwnFields ==
    /\ Called("set_next_holder_commit_num") =>
          TouchedOnly({"next_holder_commit_num", "current_holder_commit_info"})
    /\ Called("set_next_counterparty_commit_num") => TouchedOnly(CounterpartyCommitFields)
    /\ Called("set_next_counterparty_revoke_num") =>
          TouchedOnly({"next_counterparty_revoke_num", "previous_counterparty_commit_info"})
    /\ Called("get_previous_counterparty_point") => TouchedOnly({})
    /\ ~Called("validate_mutual_close_tx") =>
          /\ estate.mutual_close_signed = last.pre.mutual_close_signed
          /\ estate.initial_holder_value = last.pre.initial_holder_value

\* A holder commitment was stored after the mutual close was signed, in a
\* state with both counterparty commitments: the flag and the
\* counterparty's fields were left alone.
C35_Witness ==
    /\ Called("set_next_holder_commit_num")
    /\ last.res = OkUnit
    /\ last.pre.mutual_close_signed
    /\ estate.mutual_close_signed
    /\ last.pre.previous_counterparty_commit_info # None
    /\ estate.current_holder_commit_info # last.pre.current_holder_commit_info
    /\ estate.current_counterparty_commit_info = last.pre.current_counterparty_commit_info

\* The thread's request has been applied.
Applied(t) == threads[t].completed = 1

\* The thread's request went first: it found the channel at the number
\* before the one it carries.
WentFirst(t) == Applied(t) /\ threads[t].seen = request[t].num - 1

\* C36 as stated: of two concurrent requests that carry the next
\* counterparty commitment number, exactly one is applied as the advance and
\* the other is evaluated against the advanced state as a retry, rejected if
\* its point differs: the number advances by exactly one, and the recorded
\* point and info are those of the request that went first. It fails on a
\* channel whose previous counterparty commitment is not revoked
\* (next_counterparty_commit_num = next_counterparty_revoke_num + 2): there
\* neither request is applied.
C36_OneAdvanceOneRetry ==
    /\ \A t \in Threads :
          Applied(t) =>
              /\ estate.next_counterparty_commit_num = request[t].num
              /\ \E first \in Threads :
                    /\ WentFirst(first)
                    /\ \A other \in Threads \ {first} : ~WentFirst(other)
                    /\ estate.current_counterparty_point = request[first].point
                    /\ estate.current_counterparty_commit_info = request[first].info
    /\ (Called("set_next_counterparty_commit_num")
          /\ last.pre.next_counterparty_commit_num = last.num) =>
          /\ estate = last.pre
          /\ IF last.point = last.pre.current_counterparty_point
             THEN last.res = OkUnit
             ELSE ResIs(last.res, "Policy",
                        <<"retry {}: point different than prior", last.num>>)
    /\ (Called("set_next_counterparty_commit_num")
          /\ last.pre.next_counterparty_commit_num # last.num) =>
          /\ last.res = OkUnit
          /\ last.pre.next_counterparty_commit_num + 1 = last.num

\* The number is at most next_counterparty_revoke_num + 2, which no request
\* for a commitment changes: the channel is new, or the commitment before
\* its current one is revoked.
WithinRevoked(num) == num <= estate.next_counterparty_revoke_num + 2

\* C36, amended: of two concurrent requests that carry the next counterparty
\* commitment number commit + 1, on a channel where commit + 1 is at most
\* next_counterparty_revoke_num + 2, exactly one is applied as the advance
\* and the other is evaluated against the advanced state as a retry, rejected
\* if its point differs: the number advances by exactly one, and the recorded
\* point and info are those of the request that went first. On a channel
\* where commit + 1 is above next_counterparty_revoke_num + 2, both requests
\* get the policy error 'too large relative to next_counterparty_revoke_num'
\* and the channel is left as it was.
C36_OneAdvanceOneRetryOnceRevoked ==
    /\ \A t \in Threads :
          (Applied(t) /\ WithinRevoked(request[t].num)) =>
              /\ estate.next_counterparty_commit_num = request[t].num
              /\ \E first \in Threads :
                    /\ WentFirst(first)
                    /\ \A other \in Threads \ {first} : ~WentFirst(other)
                    /\ estate.current_counterparty_point = request[first].point
                    /\ estate.current_counterparty_commit_info = request[first].info
    /\ \A t \in Threads :
          (Applied(t) /\ ~WithinRevoked(request[t].num)) =>
              /\ estate.next_counterparty_commit_num = request[t].num - 1
              /\ estate = last.pre
              /\ DOMAIN supplied = {request[t].num - 2, request[t].num - 1}
    /\ (Called("set_next_counterparty_commit_num")
          /\ last.pre.next_counterparty_commit_num = last.num) =>
          /\ estate = last.pre
          /\ IF last.point = last.pre.current_counterparty_point
             THEN last.res = OkUnit
             ELSE ResIs(last.res, "Policy",
                        <<"retry {}: point different than prior", last.num>>)
    /\ (Called("set_next_counterparty_commit_num")
          /\ last.pre.next_counterparty_commit_num # last.num) =>
          /\ last.pre.next_counterparty_commit_num + 1 = last.num
          /\ IF WithinRevoked(last.num)
             THEN last.res = OkUnit
             ELSE /\ ResIs(last.res, "Policy",
                           <<"{} too large relative to next_counterparty_revoke_num {}",
                             last.num, estate.next_counterparty_revoke_num>>)
                  /\ estate = last.pre

\* Both requests are done: t2's went first, and t1's, with another point,
\* was rejected as a retry of the advanced channel.
C36_Witness ==
    /\ \A t \in Threads : Applied(t) /\ threads[t].pc = "idle"
    /\ WentFirst("t2")
    /\ request["t1"].point # request["t2"].point
    /\ estate.next_counterparty_commit_num = 3
    /\ estate.next_counterparty_revoke_num = 1
    /\ estate.current_counterparty_point = request["t2"].point
    /\ last.res.kind = "Policy"

\* The panics of the loop that a failing serial port causes.
SerialPanics ==
    {[msg |-> m] : m \in {"read request header", "message read failed",
                          "write reply header", "write reply"}}

\* C37: every request read in the loop gets exactly one response, written
\* with the request's sequence number before the next header is read; a
\* request with dbid > 0 is handled by the handler of that client, one with
\* dbid 0 by the root handler. Only a failure of the serial port itself
\* stops the loop.
C37_EveryRequestAnswered ==
    /\ (serial.header # None /\ serial.pc = "panicked") => serial.panic \in SerialPanics
    /\ (serial.pc = "read_header" /\ serial.header # None) =>
          /\ serial.reply_header = [sequence |-> serial.header.sequence]
          /\ serial.reply = serial.result
          /\ serial.result.kind = "Ok"
    /\ serial.reply # None => serial.reply_header # None
    /\ serial.pc \in {"write_header", "write_reply"} =>
          serial.handler = IF serial.header.dbid > 0
                           THEN [client |-> serial.header.dbid]
                           ELSE [root |-> TRUE]

\* The positions of main inside the request loop.
LoopPositions == {"read_header", "read_message", "handle", "write_header", "write_reply"}

\* C38: no request is handled before the init handshake has completed: the
\* first header has sequence 0 and dbid 0 and is followed by an HsmdInit2
\* message, whose reply is written with sequence 0 before the loop starts; a
\* first header with another sequence or dbid halts the signer without any
\* reply.
C38_InitHandshakeFirst ==
    /\ (serial.pc \in LoopPositions \/ serial.header # None) =>
          /\ serial.first = [sequence |-> 0, dbid |-> 0]
          /\ serial.init # None
          /\ serial.init.type = "HsmdInit2"
          /\ serial.init_header = [sequence |-> 0]
          /\ serial.init_reply = [type |-> "HsmdInit2Reply"]
    /\ (serial.first # None /\ serial.first # [sequence |-> 0, dbid |-> 0]) =>
          /\ serial.pc = "panicked"
          /\ serial.init = None
          /\ serial.init_header = None
          /\ serial.init_reply = None
          /\ serial.reply_header = None
          /\ serial.reply = None
          /\ serial.header = None
    /\ serial.init_reply = None =>
          /\ serial.reply_header = None
          /\ serial.reply = None
          /\ serial.header = None
          /\ serial.result = NoneOpt
    /\ serial.init_reply # None => serial.init_header = [sequence |-> 0]

\* The first header had sequence 1: the signer halted, with nothing written
\* and no request read.
C38_Witness ==
    /\ serial.first = [sequence |-> 1, dbid |-> 0]
    /\ serial.pc = "panicked"
    /\ serial.init_header = None
    /\ serial.init_reply = None
    /\ serial.reply_header = None
    /\ serial.reply = None
    /\ serial.header = None

\* The counterparty's basepoints or the remote config are missing.
NotAccepted == channel.remote_pubkeys = None \/ channel.remote_config = None

\* The libraries returned Ok to every call of the request.
LibraryWorks == \A call \in DOMAIN request.library : request.library[call]

\* C39: a counterparty commitment signature is released by
\* sign_remote_commitment_tx_phase2 only when the counterparty's basepoints
\* and the remote config are set; while one of them is missing,
\* sign_remote_commitment_tx_phase2, build_remote_commitment_info and
\* build_commitment_tx return an invalid-argument error, and never panic.
\* A request to which a library returned an error is left out.
C39_SignOnlyWhenAccepted ==
    /\ (Called("sign_remote_commitment_tx_phase2") /\ last.res.kind = "Ok") => ~NotAccepted
    /\ ( /\ NotAccepted
         /\ \/ Called("sign_remote_commitment_tx_phase2")
            \/ Called("build_remote_commitment_info")
            \/ Called("build_commitment_tx")
         /\ LibraryWorks )
       => last.res.kind = "InvalidArgument"

====
